---- MODULE Spec2Model ----
(***************************************************************************)
(* Token verification engine of auth-client (validator.go) and its API key *)
(* cache (APIKeyValidator).                                                *)
(*                                                                         *)
(* The model follows Validator: the kid -> key mapping fetched from the    *)
(* JWKS endpoint, the singleflight group that coalesces concurrent         *)
(* fetchJWKS calls, the background refreshLoop, and ValidateToken with the *)
(* jwt/v5 parser it is built on (ParseWithClaims: header and algorithm     *)
(* check, key function, signature, exp/nbf) followed by the issuer and     *)
(* audience checks of the Validator itself.                                *)
(*                                                                         *)
(* RSA material is abstract: a public key is a record [N, E] and a token   *)
(* carries the public key whose private half produced its signature.       *)
(***************************************************************************)
EXTENDS Integers, Sequences, FiniteSets, TLC

\* Last instant of the modelled clock (time.Now ranges over 0..MaxTime).
MaxTime == 1
\* The failed refreshes of the background loop are counted up to here.
MaxFailures == 2

-----------------------------------------------------------------------------
(* Processes *)

\* Goroutines that call ValidateToken.
Callers == {"c1", "c2"}
\* The goroutine started by NewValidator that runs refreshLoop.
Loop == "bg"
Procs == Callers \cup {Loop}

-----------------------------------------------------------------------------
(* Keys and JWKS documents *)

Kids == {"k1", "k2"}
\* token.Header["kid"] absent or not a string.
NoKid == "nokid"
\* v.keys[kid] of a kid that is not in the map.
Nil == [N |-> 0, E |-> 0]

\* base64url text of a modulus or exponent.  base64.RawURLEncoding refuses
\* a character outside the alphabet ("!") and padding ("AQ==").
BadB64 == "!"
Padded == "AQ=="
B64Decodes(s) == s \notin {BadB64, Padded}
\* big.Int.SetBytes / the shift loop over the decoded bytes.
ModulusOf(s) == IF s = "n1" THEN 1 ELSE IF s = "n2" THEN 2 ELSE 0
ExponentOf(s) == IF s = "AQAB" THEN 65537 ELSE 0

PubKey(n) == [N |-> n, E |-> 65537]

Jwk(kty, kid, use, alg, n, e) ==
    [Kty |-> kty, Kid |-> kid, Use |-> use, Alg |-> alg, N |-> n, E |-> e]
GoodJwk(kid, n) == Jwk("RSA", kid, "sig", "RS256", n, "AQAB")

\* Documents the JWKS endpoint may publish ("keys" arrays).
DocA == << GoodJwk("k1", "n1") >>
DocB == << GoodJwk("k1", "n1"), GoodJwk("k2", "n2") >>
DocX == << Jwk("RSA", "k1", "enc", "RS256", "n1", "AQAB"),
           Jwk("RSA", "k1", "sig", "RS256", BadB64, "AQAB"),
           GoodJwk("k2", "n2") >>
DocE == << >>
Docs == {DocA, DocB, DocX, DocE}

\* A usable entry of kid with modulus n, and the entries that differ from
\* it in one field.
JwkVariants(kid, n) ==
    { GoodJwk(kid, n),
      Jwk("EC", kid, "sig", "RS256", n, "AQAB"),
      Jwk("RSA", kid, "enc", "RS256", n, "AQAB"),
      Jwk("RSA", kid, "sig", "RS384", n, "AQAB"),
      Jwk("RSA", kid, "sig", "RS256", BadB64, "AQAB"),
      Jwk("RSA", kid, "sig", "RS256", n, Padded) }
Entries ==
    JwkVariants("k1", "n1") \cup JwkVariants("k2", "n2")
        \cup {GoodJwk("k1", "n2")}
\* Every document of at most two of these entries.
EntryDocs ==
    { << >> } \cup { << a >> : a \in Entries }
        \cup { << a, b >> : a \in Entries, b \in Entries }

\* Variant: the loop ends at the first entry it cannot use (break for
\* continue).
RECURSIVE parseJWKS_stopAtUnusable(_, _)
parseJWKS_stopAtUnusable(doc, newKeys) ==
    IF doc = << >> THEN newKeys
    ELSE LET jwk == Head(doc)
             keep == /\ jwk.Kty = "RSA" /\ jwk.Use = "sig" /\ jwk.Alg = "RS256"
                     /\ B64Decodes(jwk.N)
                     /\ B64Decodes(jwk.E)
             pubKey == [N |-> ModulusOf(jwk.N), E |-> ExponentOf(jwk.E)]
         IN  IF keep
             THEN parseJWKS_stopAtUnusable(Tail(doc),
                      [k \in (DOMAIN newKeys) \cup {jwk.Kid} |->
                          IF k = jwk.Kid THEN pubKey ELSE newKeys[k]])
             ELSE newKeys

\* The inner loop of fetchJWKS: entries that are not RSA/sig/RS256 or whose
\* n or e does not decode are skipped; a later entry of the same kid
\* overwrites an earlier one.
RECURSIVE parseJWKS(_, _)
parseJWKS(doc, newKeys) ==
    IF doc = << >> THEN newKeys
    ELSE LET jwk == Head(doc)
             keep == /\ jwk.Kty = "RSA" /\ jwk.Use = "sig" /\ jwk.Alg = "RS256"
                     /\ B64Decodes(jwk.N)
                     /\ B64Decodes(jwk.E)
             pubKey == [N |-> ModulusOf(jwk.N), E |-> ExponentOf(jwk.E)]
             next == IF keep
                     THEN [k \in (DOMAIN newKeys) \cup {jwk.Kid} |->
                              IF k = jwk.Kid THEN pubKey ELSE newKeys[k]]
                     ELSE newKeys
         IN  parseJWKS(Tail(doc), next)

\* make(map[string]*rsa.PublicKey)
EmptyKeys == [k \in {} |-> Nil]

\* What the HTTP client can hand back for one GET of the JWKS URL: a
\* transport error (connection failure, timeout), a status other than 200,
\* a 200 whose body is not JSON, or a 200 carrying a document.
Response(net, status, json, doc) ==
    [Net |-> net, Status |-> status, Json |-> json, Doc |-> doc]
Responses(doc) ==
    { Response(FALSE, 0, FALSE, << >>),
      Response(TRUE, 500, FALSE, << >>),
      Response(TRUE, 200, FALSE, << >>),
      Response(TRUE, 200, TRUE, doc) }

\* The error fetchJWKS's closure returns for a response ("" is nil).
fetchErr(r) ==
    IF ~r.Net THEN "transport"
    ELSE IF r.Status # 200 THEN "status"
    ELSE IF ~r.Json THEN "json"
    ELSE ""

\* Variant: a failed fetch empties the mapping.
keysAfter_clearOnError(r, old) ==
    IF fetchErr(r) = "" THEN parseJWKS(r.Doc, EmptyKeys) ELSE EmptyKeys

\* Variant: the fetched keys are written into the existing map.
keysAfter_merge(r, old) ==
    IF fetchErr(r) = "" THEN parseJWKS(r.Doc, old) ELSE old

\* v.keys after the closure has run on response r.
keysAfter(r, old) ==
    IF fetchErr(r) = "" THEN parseJWKS(r.Doc, EmptyKeys) ELSE old

\* v.lastFetch after the closure has run on response r at time t.
lastFetchAfter(r, old, t) ==
    IF fetchErr(r) = "" THEN t ELSE old

\* v.keys[kid] under the read lock.
getKey(ks, kid) == IF kid \in DOMAIN ks THEN ks[kid] ELSE Nil

-----------------------------------------------------------------------------
(* Tokens *)

\* A token string, by what the parser can read out of it.  WellFormed is
\* FALSE for a string that is not three base64url segments of JSON.  Signer
\* is the public half of the key pair that signed header.payload with the
\* header's algorithm.  Exp and Nbf are << >> when the claim is absent.
Token(wf, alg, kid, signer, iss, aud, exp, nbf, sub) ==
    [WellFormed |-> wf, Alg |-> alg, Kid |-> kid, Signer |-> signer,
     Iss |-> iss, Aud |-> aud, Exp |-> exp, Nbf |-> nbf, Sub |-> sub]

Algs == {"RS256", "RS384", "HS256"}
Issuers == {"", "https://issuer.example", "https://evil.example"}
Audiences == { << >>, << "svc" >>, << "other" >>, << "other", "svc" >> }
Times == { << >> } \cup { << t >> : t \in 1..(MaxTime + 1) }
Subjects == {"", "user-42"}
SignerKeys == { PubKey(1), PubKey(2) }

Garbage ==
    Token(FALSE, "RS256", NoKid, PubKey(1), "", << >>, << >>, << >>, "")

\* Tokens whose registered claims satisfy every configuration: they differ
\* in the header and the signing key only.
KeyToken(alg, kid, n) ==
    Token(TRUE, alg, kid, PubKey(n), "https://issuer.example", << "svc" >>,
          << >>, << >>, "user-42")
KeyTokens ==
    { KeyToken("RS256", "k1", 1), KeyToken("RS256", "k2", 2),
      KeyToken("RS384", "k2", 2) }

\* Every header and signing key, with registered claims that satisfy every
\* configuration.
HeaderTokens ==
    { Token(TRUE, alg, kid, signer, "https://issuer.example", << "svc" >>,
            << >>, << >>, "user-42") :
        alg \in Algs, kid \in Kids \cup {NoKid}, signer \in SignerKeys }

\* Every combination of registered claims, in a token whose header passes
\* the parser.
ClaimTokens ==
    { Token(TRUE, "RS256", "k1", signer, iss, aud, exp, nbf, "user-42") :
        signer \in SignerKeys, iss \in Issuers, aud \in Audiences,
        exp \in Times, nbf \in { << >>, << 1 >> } }

\* Every subject, in tokens that pass every other check when k1 resolves.
SubjectTokens ==
    { Token(TRUE, "RS256", "k1", PubKey(1), "https://issuer.example",
            << "svc" >>, exp, << >>, sub) :
        exp \in Times, sub \in Subjects }

\* Every token ValidateToken is tried on.
Tokens == {Garbage} \cup HeaderTokens \cup ClaimTokens \cup SubjectTokens

\* The Claims decoded from the token body (RegisteredClaims part).
ClaimsOf(t) ==
    [Subject |-> t.Sub, Issuer |-> t.Iss, Audience |-> t.Aud,
     ExpiresAt |-> t.Exp, NotBefore |-> t.Nbf]
NoClaims ==
    [Subject |-> "", Issuer |-> "", Audience |-> << >>,
     ExpiresAt |-> << >>, NotBefore |-> << >>]

-----------------------------------------------------------------------------
(* Configuration *)

\* DefaultConfig: CacheTTL is 1 * time.Hour, twenty-four units of the clock.
DefaultCacheTTL == 24

Config(issuer, audience) ==
    [Issuer |-> issuer, Audience |-> audience, CacheTTL |-> DefaultCacheTTL]
\* The configuration cf with a CacheTTL of one unit of the clock.
ShortCacheTTL(cf) == [cf EXCEPT !.CacheTTL = 1]
Configs == { Config(i, a) : i \in {"", "https://issuer.example"},
                            a \in {"", "svc"} }
DefaultConfig == Config("https://issuer.example", "svc")

\* Variant: the accepted method is read from the header of the token.
validMethods_fromHeader(t) == {t.Alg}

\* jwt.WithValidMethods([]string{jwt.SigningMethodRS256.Alg()}): the set the
\* parser was built with, whatever token t it is given.
validMethods(t) == {"RS256"}

-----------------------------------------------------------------------------
(* jwt/v5 parser steps used by ValidateToken *)

\* SigningMethod.Verify with an *rsa.PublicKey: the RSA methods accept the
\* signature iff it was made by the private half of key; the HMAC method
\* refuses the key type.
Verify(t, key) == t.Alg \in {"RS256", "RS384"} /\ t.Signer = key

\* Variant: the parser built with jwt.WithoutClaimsValidation().
validateRegistered_skipped(c, t) == ""

\* Validator.Validate of jwt/v5 with no leeway, at time t: exp and nbf are
\* checked only when present; the result is the error ("" is nil).
validateRegistered(c, t) ==
    LET expired == c.ExpiresAt # << >> /\ ~(t < c.ExpiresAt[1])
        notYet  == c.NotBefore # << >> /\ t < c.NotBefore[1]
    IN  IF expired /\ notYet THEN "expired,notyet"
        ELSE IF expired THEN "expired"
        ELSE IF notYet THEN "notyet"
        ELSE ""

\* Variant: a token without an issuer claim passes.
issuerOK_whenPresent(cf, c) ==
    ~(cf.Issuer # "" /\ c.Issuer # "" /\ c.Issuer # cf.Issuer)

\* "Validate issuer" of ValidateToken.
issuerOK(cf, c) == ~(cf.Issuer # "" /\ c.Issuer # cf.Issuer)

\* Variant: the audience list must be exactly the configured audience.
audienceOK_wholeList(cf, c) ==
    cf.Audience # "" => c.Audience = << cf.Audience >>

\* Variant: a token with an empty audience list passes.
audienceOK_emptyPasses(cf, c) ==
    (cf.Audience # "" /\ Len(c.Audience) > 0) =>
        \E i \in 1..Len(c.Audience) : c.Audience[i] = cf.Audience

\* "Validate audience" of ValidateToken.
audienceOK(cf, c) ==
    cf.Audience # "" =>
        \E i \in 1..Len(c.Audience) : c.Audience[i] = cf.Audience

Result(err, c) == [Err |-> err, Claims |-> c]

\* Variant: a configuration that names neither issuer nor audience turns
\* the checks of the registered claims off as well.
verifyAndCheck_openConfig(cf, tk, key, t) ==
    LET c == ClaimsOf(tk)
        open == cf.Issuer = "" /\ cf.Audience = ""
    IN  IF ~Verify(tk, key) THEN Result("signature", NoClaims)
        ELSE IF ~open /\ validateRegistered(c, t) # ""
             THEN Result(validateRegistered(c, t), NoClaims)
        ELSE IF ~issuerOK(cf, c) THEN Result("issuer", NoClaims)
        ELSE IF ~audienceOK(cf, c) THEN Result("audience", NoClaims)
        ELSE Result("", c)

\* ValidateToken from the point where the key function has returned key:
\* signature, registered claims, then issuer and audience.
verifyAndCheck(cf, tk, key, t) ==
    LET c == ClaimsOf(tk)
    IN  IF ~Verify(tk, key) THEN Result("signature", NoClaims)
        ELSE IF validateRegistered(c, t) # ""
             THEN Result(validateRegistered(c, t), NoClaims)
        ELSE IF ~issuerOK(cf, c) THEN Result("issuer", NoClaims)
        ELSE IF ~audienceOK(cf, c) THEN Result("audience", NoClaims)
        ELSE Result("", c)

\* Variant: the key function takes a header without kid for the kid "" and
\* looks it up.
headerErr_kidOptional(tk) ==
    IF ~tk.WellFormed THEN "malformed"
    ELSE IF tk.Alg \notin {"RS256"} THEN "alg"
    ELSE ""

\* ParseWithClaims up to the call of the key function: ParseUnverified,
\* the valid-methods check, then the kid of the header ("" lets the key
\* function look the key up).
headerErr(tk) ==
    IF ~tk.WellFormed THEN "malformed"
    ELSE IF tk.Alg \notin validMethods(tk) THEN "alg"
    ELSE IF tk.Kid = NoKid THEN "nokid"
    ELSE ""

-----------------------------------------------------------------------------
(* keysMu *)

\* A sync.RWMutex: the goroutine that holds it for writing (or NoCall), the
\* goroutines blocked in Lock, and the goroutines that hold it for reading.
RWMutex(w, b, r) == [writer |-> w, blocked |-> b, readers |-> r]
NoCall == "none"
Unlocked == RWMutex(NoCall, {}, {})

-----------------------------------------------------------------------------
(* API keys *)

APIKeys == {"ka", "kb"}
\* The apiKey of no call.
NoAPIKey == "nokey"

\* NewAPIKeyValidator: cacheTTL is 5 * time.Minute; the clock of the model
\* counts in units of two and a half minutes.
cacheTTL == 2

\* An APIKeyValidationResult.  SubscriptionLimits, a map[string]int, is the
\* sequence of its << metric, limit >> pairs.
APIKeyValidationResult(id, tenant, scopes, roles, svc, plan, feat, lim, st) ==
    [ClientID |-> id, TenantID |-> tenant, Scopes |-> scopes,
     Roles |-> roles, Service |-> svc, SubscriptionPlan |-> plan,
     SubscriptionFeatures |-> feat, SubscriptionLimits |-> lim,
     SubscriptionStatus |-> st]

\* What auth-service may report about a key: a service key and a tenant's
\* key with a subscription.
ValidationResults ==
    { APIKeyValidationResult("svc-client", "t1", << "orders:read" >>, << >>,
                             "orders", "", << >>, << >>, ""),
      APIKeyValidationResult("ext-client", "t2", << "api:read", "api:write" >>,
                             << "admin" >>, "", "GROWTH", << "export" >>,
                             << << "users", 5 >> >>, "ACTIVE") }

\* An apiKeyInfo: the fields of the result it was made from, and expiresAt.
apiKeyInfo(result, expiresAt) == [info |-> result, expiresAt |-> expiresAt]

\* make(map[string]*apiKeyInfo)
EmptyCache == [k \in {} |-> << >>]

\* The JSON object of a 200 response: the fields APIKeyValidationResult
\* names and, when auth-service reports one, the expiry of the key itself
\* (<< >> when the object has no such field).
Body(result, expires) == [Result |-> result, ExpiresAt |-> expires]

\* The expiry auth-service may report for a key: none, one that has passed
\* already, one far beyond cacheTTL.
ReportedExpiries == { << >>, << 0 >>, << MaxTime + cacheTTL + 1 >> }

\* json.NewDecoder(resp.Body).Decode(&result): the fields the struct names
\* are filled in, every other field of the object is dropped.
Decode(body) == body.Result

\* What the HTTP client can hand back for one GET of the validate URL: a
\* transport error, a status other than 200, a 200 whose body does not
\* decode, or a 200 carrying a JSON object.
APIResponse(net, status, json, body) ==
    [Net |-> net, Status |-> status, Json |-> json, Body |-> body]
APIResponses ==
    { APIResponse(FALSE, 0, FALSE, << >>),
      APIResponse(TRUE, 401, FALSE, << >>),
      APIResponse(TRUE, 503, FALSE, << >>),
      APIResponse(TRUE, 200, FALSE, << >>) }
    \cup { APIResponse(TRUE, 200, TRUE, << Body(r, e) >>) :
              r \in ValidationResults, e \in ReportedExpiries }

\* What ValidateAPIKeyFull returns: the result (<< >> is nil) and the
\* error ("" is nil) with the status code it names.
Validation(res, err, status) == [Res |-> res, Err |-> err, Status |-> status]
NoValidation == Validation(<< >>, "", 0)

\* The error of ValidateAPIKeyFull for a response ("" is nil).
apiErr(r) ==
    IF ~r.Net THEN "request failed"
    ELSE IF r.Status # 200 THEN "invalid API key"
    ELSE IF ~r.Json THEN "decode response"
    ELSE ""

\* What ValidateAPIKeyFull returns on response r.
validationOf(r) ==
    IF apiErr(r) = "" THEN Validation(<< Decode(r.Body[1]) >>, "", 0)
    ELSE Validation(<< >>, apiErr(r),
                    IF apiErr(r) = "invalid API key" THEN r.Status ELSE 0)

\* Variant: an entry still counts at the instant of its expiry.
notExpired_inclusive(info, t) == t <= info.expiresAt

\* time.Now().Before(info.expiresAt)
notExpired(info, t) == t < info.expiresAt

\* Variant: an entry expires the moment it is made.
expiresAtFrom_now(t) == t

\* time.Now().Add(v.cacheTTL)
expiresAtFrom(t) == t + cacheTTL

\* delete(v.cache, apiKey)
cacheDelete(c, k) == [x \in (DOMAIN c) \ {k} |-> c[x]]

\* v.cache[apiKey] = info
cachePut(c, k, info) ==
    [x \in (DOMAIN c) \cup {k} |-> IF x = k THEN info ELSE c[x]]

\* Variant: the cache remembers a failed check as an entry without result.
cacheAfter_rememberFailure(r, c, k, t) ==
    cachePut(c, k, apiKeyInfo(IF apiErr(r) = "" THEN Decode(r.Body[1])
                              ELSE APIKeyValidationResult("", "", << >>,
                                       << >>, "", "", << >>, << >>, ""),
                              expiresAtFrom(t)))

\* Variant: the entry lives as long as auth-service says the key does.
cacheAfter_reportedExpiry(r, c, k, t) ==
    IF apiErr(r) # "" THEN c
    ELSE cachePut(c, k, apiKeyInfo(Decode(r.Body[1]),
                                   IF r.Body[1].ExpiresAt # << >>
                                   THEN r.Body[1].ExpiresAt[1]
                                   ELSE expiresAtFrom(t)))

\* v.cache after ValidateAPIKeyFull(k) has handled response r at time t.
cacheAfter(r, c, k, t) ==
    IF apiErr(r) # "" THEN c
    ELSE cachePut(c, k, apiKeyInfo(Decode(r.Body[1]), expiresAtFrom(t)))

-----------------------------------------------------------------------------
(* Claims *)

\* A Claims, by the fields its helpers and the middleware read: Subject of
\* the RegisteredClaims, and the tenant, scope, role, subscription and
\* service-account fields.
Claims(sub, tenant, scope, roles, plan, feat, lim, st, svc, isSvc) ==
    [Subject |-> sub, TenantID |-> tenant, Scope |-> scope, Roles |-> roles,
     SubscriptionPlan |-> plan, SubscriptionFeatures |-> feat,
     SubscriptionLimits |-> lim, SubscriptionStatus |-> st,
     ServiceName |-> svc, IsService |-> isSvc]

\* APIKeyValidationResult.ToClaims: Subject is not among the fields it
\* sets, and IsService is r.Service != "".
ToClaims(r) ==
    Claims("", r.TenantID, r.Scopes, r.Roles, r.SubscriptionPlan,
           r.SubscriptionFeatures, r.SubscriptionLimits,
           r.SubscriptionStatus, r.Service, r.Service # "")

\* Variant: the Claims are put into the context as ToClaims made them.
apiKeyClaims_asConverted(r) == ToClaims(r)

\* RequireAuth on a valid API key: claims := result.ToClaims(), then
\* claims.Subject = result.ClientID.
apiKeyClaims(r) == [ToClaims(r) EXCEPT !.Subject = r.ClientID]

\* Claims.Valid: the error it returns ("" is nil).  The parser of jwt/v5
\* calls Validate() of a ClaimsValidator and never Valid().
Valid(c) == IF c.Subject = "" THEN "ErrInvalidKey" ELSE ""

\* Claims helpers: scopes.
HasScope(c, scope) == \E i \in 1..Len(c.Scope) : c.Scope[i] = scope

\* Variant: no required scope is any scope.
HasAnyScope_emptyPasses(c, scopes) ==
    scopes = << >> \/ \E i \in 1..Len(scopes) : HasScope(c, scopes[i])

HasAnyScope(c, scopes) == \E i \in 1..Len(scopes) : HasScope(c, scopes[i])
HasAllScopes(c, scopes) == \A i \in 1..Len(scopes) : HasScope(c, scopes[i])

\* Claims helpers: roles.
HasRole(c, role) == \E i \in 1..Len(c.Roles) : c.Roles[i] = role
HasAnyRole(c, roles) == \E i \in 1..Len(roles) : HasRole(c, roles[i])

\* Variant: superuser counts only as the one role of the Claims.
IsSuperuser_soleRole(c) == c.Roles = << "superuser" >>

IsSuperuser(c) == HasRole(c, "superuser")
IsAdmin(c) == HasRole(c, "admin") \/ IsSuperuser(c)

\* Claims helpers: subscription features.
HasFeature(c, feature) ==
    \E i \in 1..Len(c.SubscriptionFeatures) :
        c.SubscriptionFeatures[i] = feature
HasAnyFeature(c, features) ==
    \E i \in 1..Len(features) : HasFeature(c, features[i])

\* Variant: only a status known to be active counts as active.
IsSubscriptionActive_failClosed(c) ==
    c.SubscriptionStatus \in {"ACTIVE", "TRIAL"}

\* The switch of IsSubscriptionActive: "If no subscription status, assume
\* active (free tier or legacy)".
IsSubscriptionActive(c) ==
    CASE c.SubscriptionStatus \in {"ACTIVE", "TRIAL"} -> TRUE
      [] c.SubscriptionStatus \in {"EXPIRED", "CANCELLED", "SUSPENDED"} -> FALSE
      [] OTHER -> TRUE

\* Variant: a plan the switch does not know ranks with the lowest plans.
PlanTier_unknownAsLowest(c) ==
    CASE c.SubscriptionPlan \in {"GROWTH", "BASIC"} -> 2
      [] c.SubscriptionPlan \in {"PROFESSIONAL", "PRO"} -> 3
      [] c.SubscriptionPlan = "ENTERPRISE" -> 4
      [] OTHER -> 1

\* The switch of PlanTier.
PlanTier(c) ==
    CASE c.SubscriptionPlan \in {"STARTER", "FREE"} -> 1
      [] c.SubscriptionPlan \in {"GROWTH", "BASIC"} -> 2
      [] c.SubscriptionPlan \in {"PROFESSIONAL", "PRO"} -> 3
      [] c.SubscriptionPlan = "ENTERPRISE" -> 4
      [] OTHER -> 0

\* &Claims{}
EmptyClaims == Claims("", "", << >>, << >>, "", << >>, << >>, "", "", FALSE)

\* requiredTier := (&Claims{SubscriptionPlan: plan}).PlanTier()
IsAtLeastPlan(c, plan) ==
    PlanTier(c) >= PlanTier([EmptyClaims EXCEPT !.SubscriptionPlan = plan])

\* The Claims the gates are tried on: every combination of these roles,
\* plans, features and statuses.
RoleLists ==
    { << >>, << "user" >>, << "admin" >>, << "superuser" >>,
      << "user", "superuser" >> }
Plans ==
    { "", "STARTER", "FREE", "GROWTH", "BASIC", "PROFESSIONAL", "PRO",
      "ENTERPRISE", "starter", "PLATINUM" }
FeatureLists == { << >>, << "export" >>, << "export", "sso" >> }
Statuses ==
    { "", "ACTIVE", "TRIAL", "EXPIRED", "CANCELLED", "SUSPENDED", "PAUSED",
      "active" }
GateClaims ==
    { Claims("user-42", "t1", << >>, roles, plan, feat, << >>, st, "", FALSE) :
        roles \in RoleLists, plan \in Plans, feat \in FeatureLists,
        st \in Statuses }

\* The Claims the scope gates are tried on, and the scopes they are asked
\* for.
ScopeLists ==
    { << "read" >>, << "read", "write" >>, << "write", "read" >>,
      << "read", "read" >>, << "admin", "write", "read" >> }
ScopeClaims ==
    { Claims("user-42", "t1", scope, roles, "", << >>, << >>, "", "", FALSE) :
        scope \in ScopeLists, roles \in { << >>, << "superuser" >> } }
ScopeArgs ==
    { << >>, << "read" >>, << "delete" >>, << "read", "write" >>,
      << "delete", "write" >>, << "write", "write" >> }

-----------------------------------------------------------------------------
(* Requests *)

\* An AuthMiddleware: NewAuthMiddleware leaves apiKeyValidator nil,
\* NewAuthMiddlewareWithAPIKey sets it.
AuthMiddleware(apiKeyValidator) == [apiKeyValidator |-> apiKeyValidator]
NewAuthMiddleware == AuthMiddleware(FALSE)
NewAuthMiddlewareWithAPIKey == AuthMiddleware(TRUE)

\* The headers of a request that RequireAuth reads: the scheme of the
\* Authorization header ("" without the header), the text after its first
\* seven characters as the token it is, and X-API-Key ("" without it).
Request(scheme, token, apiKey) ==
    [Scheme |-> scheme, Token |-> token, APIKey |-> apiKey]
Schemes == {"", "Basic", "Bearer", "bearer"}
\* Two tokens ValidateToken accepts when the store holds or can fetch their
\* key, and text that is no token.
RequestTokens ==
    { KeyToken("RS256", "k1", 1), KeyToken("RS256", "k2", 2), Garbage }
Requests ==
    { Request(sc, tk, k) :
        sc \in Schemes, tk \in RequestTokens, k \in {""} \cup APIKeys }
NoRequest == Request("", Garbage, "")

\* strings.ToLower on a scheme.
ToLower(s) ==
    IF s = "Bearer" THEN "bearer" ELSE IF s = "Basic" THEN "basic" ELSE s

\* authHeader != "" && strings.HasPrefix(strings.ToLower(authHeader),
\* "bearer ")
hasBearer(r) == r.Scheme # "" /\ ToLower(r.Scheme) = "bearer"

\* ClaimsFromContext on a context whose value under claimsContextKey is
\* value (<< >> if there is none or it is a nil pointer):
\* return claims, ok && claims != nil.
ClaimsFromContext(value) == [claims |-> value, ok |-> value # << >>]

\* What a handler did with a request: nothing yet, next.ServeHTTP with
\* claims in the context (Status 200 stands for it), or the status it
\* wrote with writeAuthError.
Outcome(status, claims) == [Status |-> status, Claims |-> claims]
NoOutcome == Outcome(0, << >>)

\* A context without claims.
NoContext == << >>

\* A gate or helper with its argument, and no call.
Call(fn, arg) == [Fn |-> fn, Arg |-> arg]
NoCallYet == Call("", << >>)

\* The backing stores: one per decoded response and per holder of a
\* result at most.
Refs == 1..(Cardinality(APIKeys) + Cardinality(Callers))
\* A nil reference.
NoRef == 0
\* A backing store that is not allocated.
Free == << >>

\* The handlers router.Use(GinMiddleware(mw)) and a route put in the chain
\* of a request.
Handlers == << "GinMiddleware", "route" >>

\* A gin.Context: index is the position in the chain (c.index, 0 for the
\* first handler), written the status written to c.Writer (0 if none yet),
\* ran whether the route handler has run.
GinContext(index, written, ran) ==
    [index |-> index, written |-> written, ran |-> ran]
\* The Context of no request: c.reset() has set index to -1.
NoGin == GinContext(-1, 0, FALSE)

-----------------------------------------------------------------------------
(* State *)

VARIABLES
    cfg,        \* v.config (Issuer, Audience)
    keys,       \* v.keys
    lastFetch,  \* v.lastFetch
    sf,         \* v.fetchGroup: the goroutine running the "jwks" call, or NoCall
    now,        \* time.Now()
    served,     \* the document the JWKS endpoint publishes at the moment
    pc,         \* where each goroutine stands
    tok,        \* the token of a ValidateToken call in progress
    resp,       \* the HTTP response a goroutine's GET has received
    ferr,       \* the error fetchJWKS returned to a goroutine
    ret,        \* what a finished ValidateToken call returned
    nLookup,    \* getKey calls made by the ValidateToken call in progress
    nFetch,     \* fetchJWKS calls made by the ValidateToken call in progress
    sent,       \* whether a goroutine's fetchJWKS call issued a GET of its own
    fresh,      \* the first getKey of the ValidateToken call missed and the
                \* endpoint has published the token's kid and key ever since
    mu,         \* v.keysMu: its writer, the goroutines blocked in Lock, its
                \* readers
    newKeys,    \* the closure's local newKeys map, per goroutine
    jwksRest,   \* the entries of jwks.Keys the closure's loop has yet to visit
    want,       \* the kid of a getKey call in progress
    got,        \* what a goroutine's last getKey call returned
    fetched,    \* the documents of the last two successful GETs since
                \* NewValidator returned, oldest first
    stopRefresh,\* v.stopRefresh: "open", "closed", or "panic" once closed twice
    failures,   \* failed fetchJWKS calls of refreshLoop since its last success
    cache,      \* APIKeyValidator.cache
    apc,        \* where each ValidateAPIKeyFull call stands: "idle", "http",
                \* "recv", returned from the cache ("hit") or after the
                \* remote check ("done")
    akey,       \* the apiKey of a ValidateAPIKeyFull call in progress
    aresp,      \* the HTTP response a ValidateAPIKeyFull call has received
    aret,       \* what a goroutine's last ValidateAPIKeyFull call returned
    lastOK,     \* per apiKey, the latest successful remote validation
    mw,         \* where each RequireAuth handler stands
    rq,         \* the AuthMiddleware and the request of a handler in progress
    out,        \* what the handler did: next.ServeHTTP with claims in the
                \* context, or the status it wrote
    ctx,        \* the claims in the context of the request that reaches the
                \* gates (<< >> if none)
    call,       \* the gate or Claims helper applied last, with its argument
    result,     \* what it did or returned
    heap,       \* the backing stores of the slices and the map of decoded
                \* results, by reference
    cref,       \* per apiKey, the backing store its cache entry points to
    aref,       \* per goroutine, the backing store its result points to
    gin         \* per goroutine, the gin.Context of the request it serves

validatorVars == << cfg, keys, lastFetch, sf >>
envVars == << now, served >>
procVars == << pc, tok, resp, ferr, ret >>
countVars == << nLookup, nFetch, sent, fresh >>
storeVars == << mu, newKeys, jwksRest, want, got, fetched >>
loopVars == << stopRefresh, failures >>
apiVars == << cache, apc, akey, aresp, aret, lastOK >>
mwVars == << mw, rq, out >>
gateVars == << ctx, call, result >>
refVars == << heap, cref, aref >>
ginVars == << gin >>
reqVars == << mwVars, gateVars, refVars, ginVars >>
\* What the steps of ValidateToken and of the coarse fetchJWKS leave alone.
extVars == << storeVars, stopRefresh, apiVars, reqVars >>
vars == << validatorVars, envVars, procVars, countVars, storeVars, loopVars,
           apiVars, reqVars >>

NoResult == Result("", NoClaims)

\* The state NewValidator returns in: its initial fetch got document d;
\* no request is being served, and the request that reaches the gates has
\* one of the contexts in contexts.
InitFields(configs, contexts) ==
    /\ cfg \in configs
    /\ lastFetch = 0
    /\ sf = NoCall
    /\ now = 0
    /\ tok = [p \in Callers |-> Garbage]
    /\ resp = [p \in Procs |-> << >>]
    /\ ferr = [p \in Procs |-> ""]
    /\ ret = [p \in Callers |-> NoResult]
    /\ nLookup = [p \in Callers |-> 0]
    /\ nFetch = [p \in Callers |-> 0]
    /\ sent = [p \in Procs |-> FALSE]
    /\ fresh = [p \in Callers |-> FALSE]
    /\ mu = Unlocked
    /\ newKeys = [p \in Procs |-> EmptyKeys]
    /\ jwksRest = [p \in Procs |-> << >>]
    /\ want = [p \in Callers |-> NoKid]
    /\ got = [p \in Callers |-> Nil]
    /\ fetched = << >>
    /\ stopRefresh = "open"
    /\ failures = 0
    /\ cache = EmptyCache
    /\ apc = [p \in Callers |-> "idle"]
    /\ akey = [p \in Callers |-> NoAPIKey]
    /\ aresp = [p \in Callers |-> << >>]
    /\ aret = [p \in Callers |-> NoValidation]
    /\ lastOK = [k \in APIKeys |-> << >>]
    /\ mw = [p \in Callers |-> "idle"]
    /\ rq = [p \in Callers |-> [A |-> NewAuthMiddleware, R |-> NoRequest]]
    /\ out = [p \in Callers |-> NoOutcome]
    /\ ctx \in contexts
    /\ call = NoCallYet
    /\ result = ""
    /\ heap = [r \in Refs |-> Free]
    /\ cref = [k \in APIKeys |-> NoRef]
    /\ aref = [p \in Callers |-> NoRef]
    /\ gin = [p \in Callers |-> NoGin]

\* The state a successful NewValidator returns in: the mapping is the one
\* of its fetch of document d, and refreshLoop is running.
InitAll(configs, d, contexts) ==
    /\ keys = parseJWKS(d, EmptyKeys)
    /\ served = d
    /\ pc = [p \in Procs |-> "idle"]
    /\ InitFields(configs, contexts)

\* The same, with no claims in the context that reaches the gates.
InitWith(configs, d) == InitAll(configs, d, {NoContext})

Init == \E d \in Docs : InitWith({DefaultConfig}, d)

\* Whether the endpoint document d carries the key that signed tk under
\* tk's kid.
Publishes(d, tk) == getKey(parseJWKS(d, EmptyKeys), tk.Kid) = tk.Signer

-----------------------------------------------------------------------------
(* ValidateToken *)

\* The call returns r.
Finish(p, r) ==
    /\ pc' = [pc EXCEPT ![p] = "done"]
    /\ ret' = [ret EXCEPT ![p] = r]

\* ValidateToken(tk) up to the first return or the first blocking call:
\* parse, algorithm check, kid, getKey; on a hit the rest of the call.
ValidateToken(p, tk) ==
    /\ pc[p] = "idle"
    /\ tok' = [tok EXCEPT ![p] = tk]
    /\ nFetch' = [nFetch EXCEPT ![p] = 0]
    /\ IF headerErr(tk) # ""
       THEN /\ Finish(p, Result(headerErr(tk), NoClaims))
            /\ nLookup' = [nLookup EXCEPT ![p] = 0]
            /\ fresh' = [fresh EXCEPT ![p] = FALSE]
       ELSE /\ nLookup' = [nLookup EXCEPT ![p] = 1]
            /\ IF getKey(keys, tk.Kid) # Nil
               THEN /\ Finish(p, verifyAndCheck(cfg, tk, getKey(keys, tk.Kid),
                                                now))
                    /\ fresh' = [fresh EXCEPT ![p] = FALSE]
               ELSE /\ pc' = [pc EXCEPT ![p] = "miss"]
                    /\ ret' = ret
                    /\ fresh' = [fresh EXCEPT ![p] = Publishes(served, tk)]
    /\ UNCHANGED << validatorVars, envVars, resp, ferr, sent >>
    /\ UNCHANGED << extVars, failures >>

\* Variant: fetchJWKS without the singleflight group.
doLeads_always(group) == TRUE

\* singleflight.Group.Do("jwks", fn) on entry: with no call in flight the
\* caller becomes the one that runs fn, otherwise it waits for that call.
doLeads(group) == group = NoCall

\* fetchJWKS entered by goroutine p: the leader builds the request and the
\* HTTP client sends it.
fetchJWKS(p) ==
    IF doLeads(sf)
    THEN /\ sf' = p
         /\ pc' = [pc EXCEPT ![p] = "http"]
         /\ sent' = [sent EXCEPT ![p] = TRUE]
    ELSE /\ sf' = sf
         /\ pc' = [pc EXCEPT ![p] = "wait"]
         /\ sent' = [sent EXCEPT ![p] = FALSE]

\* The key function after a miss: "Try to refresh JWKS".
ValidateTokenRefresh(p) ==
    /\ p \in Callers
    /\ pc[p] = "miss"
    /\ fetchJWKS(p)
    /\ nFetch' = [nFetch EXCEPT ![p] = @ + 1]
    /\ UNCHANGED << cfg, keys, lastFetch, envVars, tok, resp, ferr, ret,
                    nLookup, fresh >>
    /\ UNCHANGED << extVars, failures >>

\* Variant: the key function starts over when the kid is still absent.
onStillAbsent_tryAgain(p) ==
    /\ pc' = [pc EXCEPT ![p] = "miss"]
    /\ ret' = ret

\* The key function when the kid is absent after the refresh as well:
\* "key %s not found in JWKS", no further attempt.
onStillAbsent(p) == Finish(p, Result("notfound", NoClaims))

\* The key function after fetchJWKS has returned: give up on a failed
\* refresh, else look the kid up once more and finish the call.
ValidateTokenRetry(p) ==
    /\ p \in Callers
    /\ pc[p] = "back"
    /\ IF ferr[p] # ""
       THEN /\ Finish(p, Result("refresh", NoClaims))
            /\ nLookup' = nLookup
       ELSE /\ nLookup' = [nLookup EXCEPT ![p] = @ + 1]
            /\ IF getKey(keys, tok[p].Kid) # Nil
               THEN Finish(p, verifyAndCheck(cfg, tok[p],
                                             getKey(keys, tok[p].Kid), now))
               ELSE onStillAbsent(p)
    /\ ferr' = [ferr EXCEPT ![p] = ""]
    /\ sent' = [sent EXCEPT ![p] = FALSE]
    /\ UNCHANGED << validatorVars, envVars, tok, resp, nFetch, fresh >>
    /\ UNCHANGED << extVars, failures >>

\* The caller takes the result; the goroutine is free for another call.
Return(p) ==
    /\ p \in Callers
    /\ pc[p] = "done"
    /\ pc' = [pc EXCEPT ![p] = "idle"]
    /\ tok' = [tok EXCEPT ![p] = Garbage]
    /\ ret' = [ret EXCEPT ![p] = NoResult]
    /\ nLookup' = [nLookup EXCEPT ![p] = 0]
    /\ nFetch' = [nFetch EXCEPT ![p] = 0]
    /\ fresh' = [fresh EXCEPT ![p] = FALSE]
    /\ UNCHANGED << validatorVars, envVars, resp, ferr, sent >>
    /\ UNCHANGED << extVars, failures >>

-----------------------------------------------------------------------------
(* fetchJWKS *)

\* The GET of goroutine p is answered: the endpoint replies from the key
\* set it publishes at this moment, or the exchange fails.
HttpDo(p) ==
    /\ pc[p] = "http"
    /\ \E r \in Responses(served) : resp' = [resp EXCEPT ![p] = << r >>]
    /\ pc' = [pc EXCEPT ![p] = "recv"]
    /\ UNCHANGED << validatorVars, envVars, tok, ferr, ret, countVars >>

\* The same, in a run that keeps no record of the documents fetched.
HttpRespond(p) ==
    /\ HttpDo(p)
    /\ UNCHANGED << extVars, failures >>

\* Where a goroutine continues when fetchJWKS returns: the key function of
\* a ValidateToken call goes on with the error; refreshLoop drops the error
\* (_ = v.fetchJWKS(ctx)) and waits for the next tick.
\* Variant: refreshLoop returns when its fetch fails.
afterFetch_returnOnError(p, err) ==
    IF p \in Callers THEN "back" ELSE IF err # "" THEN "exit" ELSE "idle"

afterFetch(p, err) == IF p \in Callers THEN "back" ELSE "idle"

\* The end of Do on the leader p, whose closure returned err: the call is
\* removed from the group, and p and every goroutine waiting on the call
\* return err from fetchJWKS.
doReturns(p, err) ==
    LET woken == {p} \cup {w \in Procs : pc[w] = "wait"}
    IN  /\ sf' = NoCall
        /\ pc' = [w \in Procs |->
                     IF w \in woken THEN afterFetch(w, err) ELSE pc[w]]
        /\ ferr' = [w \in Procs |->
                       IF w \in woken /\ afterFetch(w, err) = "back"
                       THEN err ELSE ferr[w]]
        /\ sent' = [w \in Procs |->
                       IF w \in woken /\ afterFetch(w, err) # "back"
                       THEN FALSE ELSE sent[w]]

\* The rest of the closure on the leader (status, decode, build newKeys,
\* store under keysMu) and the end of Do.
fetchJWKSDone(p) ==
    /\ pc[p] = "recv"
    /\ keys' = keysAfter(resp[p][1], keys)
    /\ lastFetch' = lastFetchAfter(resp[p][1], lastFetch, now)
    /\ doReturns(p, fetchErr(resp[p][1]))
    /\ resp' = [resp EXCEPT ![p] = << >>]
    /\ UNCHANGED << cfg, envVars, tok, ret, nLookup, nFetch, fresh >>
    /\ UNCHANGED extVars

\* The same, in a run that does not count the loop's failures.
fetchJWKSComplete(p) ==
    /\ fetchJWKSDone(p)
    /\ UNCHANGED failures

\* refreshLoop, case <-ticker.C: a tick is ready, the select takes it and
\* the loop calls fetchJWKS.  The select chooses among its ready cases at
\* random, so a closed stopRefresh does not keep it from taking a tick.
refreshLoop ==
    /\ pc[Loop] = "idle"
    /\ fetchJWKS(Loop)
    /\ UNCHANGED << cfg, keys, lastFetch, envVars, tok, resp, ferr, ret,
                    nLookup, nFetch, fresh >>
    /\ UNCHANGED << extVars, failures >>

\* Failed fetchJWKS calls of refreshLoop in a row, after one more call has
\* returned err; counted up to MaxFailures.
failuresAfter(err, n) ==
    IF err = "" THEN 0 ELSE IF n < MaxFailures THEN n + 1 ELSE n

\* The rest of the closure and the end of Do, in a run that counts the
\* failed calls of refreshLoop.
fetchJWKSCounted(p) ==
    /\ fetchJWKSDone(p)
    /\ failures' = IF p = Loop \/ pc[Loop] = "wait"
                   THEN failuresAfter(fetchErr(resp[p][1]), failures)
                   ELSE failures

\* refreshLoop, case <-v.stopRefresh: the channel is closed and the select
\* takes this case; the loop returns.
refreshLoopExit ==
    /\ pc[Loop] = "idle"
    /\ stopRefresh = "closed"
    /\ pc' = [pc EXCEPT ![Loop] = "exit"]
    /\ UNCHANGED << validatorVars, envVars, tok, resp, ferr, ret, countVars,
                    storeVars, loopVars, apiVars,
                    reqVars >>

\* Stop: close(v.stopRefresh).  Closing the closed channel panics, which
\* ends the process and every goroutine with it.
Stop ==
    /\ stopRefresh # "panic"
    /\ IF stopRefresh = "open"
       THEN /\ stopRefresh' = "closed"
            /\ pc' = pc
       ELSE /\ stopRefresh' = "panic"
            /\ pc' = [p \in Procs |-> "dead"]
    /\ UNCHANGED << validatorVars, envVars, tok, resp, ferr, ret, countVars,
                    storeVars, failures, apiVars, reqVars >>

\* What NewValidator leaves of its caller and of refreshLoop when its fetch
\* returned err: "return nil, err" before the go statement, or
\* "go v.refreshLoop()" and "return v, nil".
\* Variant: the loop is started before the error is looked at.
loopAfterNew_startFirst(err) == "idle"

loopAfterNew(err) == IF err # "" THEN "unborn" ELSE "idle"

callerAfterNew(err) == IF err # "" THEN "failed" ELSE "idle"

\* NewValidator up to its call of fetchJWKS: the Validator is built with an
\* empty mapping and the caller, c1, fetches the JWKS.
NewValidator ==
    /\ pc["c1"] = "new"
    /\ fetchJWKS("c1")
    /\ nFetch' = [nFetch EXCEPT !["c1"] = @ + 1]
    /\ UNCHANGED << cfg, keys, lastFetch, envVars, tok, resp, ferr, ret,
                    nLookup, fresh >>
    /\ UNCHANGED << extVars, failures >>

\* NewValidator after fetchJWKS has returned.
NewValidatorReturn ==
    /\ pc["c1"] = "back"
    /\ pc[Loop] = "unborn"
    /\ pc' = [pc EXCEPT !["c1"] = callerAfterNew(ferr["c1"]),
                        ![Loop] = loopAfterNew(ferr["c1"])]
    /\ sent' = [sent EXCEPT !["c1"] = FALSE]
    /\ UNCHANGED << validatorVars, envVars, tok, resp, ferr, ret, nLookup,
                    nFetch, fresh >>
    /\ UNCHANGED << extVars, failures >>

-----------------------------------------------------------------------------
(* Environment *)

\* The auth service rotates its keys: the endpoint publishes another set.
RotateTo(docs) ==
    /\ \E d \in docs \ {served} : served' = d
    /\ fresh' = [p \in Callers |-> fresh[p] /\ Publishes(served', tok[p])]
    /\ UNCHANGED << validatorVars, now, procVars, nLookup, nFetch, sent >>
    /\ UNCHANGED << extVars, failures >>

Rotate == RotateTo(Docs)

\* Between two fetches the endpoint publishes any document of EntryDocs.
Publish ==
    /\ \A p \in Procs : pc[p] = "idle"
    /\ RotateTo(EntryDocs)

\* Time passes.
Tick ==
    /\ now < MaxTime
    /\ now' = now + 1
    /\ UNCHANGED << validatorVars, served, procVars, countVars >>
    /\ UNCHANGED << extVars, failures >>

\* Time passes for the API key cache, until an entry made at MaxTime has
\* expired.
TickAPIKey ==
    /\ now < MaxTime + cacheTTL
    /\ now' = now + 1
    /\ UNCHANGED << validatorVars, served, procVars, countVars >>
    /\ UNCHANGED << extVars, failures >>

-----------------------------------------------------------------------------
(* getKey and fetchJWKS at the grain of keysMu *)

\* The documents of the last two successful GETs once doc has arrived.
recordFetch(f, doc) ==
    IF Len(f) < 2 THEN Append(f, doc) ELSE << f[2], doc >>

\* The GET of goroutine p is answered, and the run keeps the documents of
\* the last two successful GETs.
HttpRespondRecorded(p) ==
    /\ HttpDo(p)
    /\ fetched' = IF fetchErr(resp'[p][1]) = ""
                  THEN recordFetch(fetched, resp'[p][1].Doc)
                  ELSE fetched
    /\ UNCHANGED << mu, newKeys, jwksRest, want, got, loopVars, apiVars,
                    reqVars >>

\* getKey(kid) is called and reaches keysMu.RLock().
getKeyCall(p, kid) ==
    /\ p \in Callers
    /\ pc[p] = "idle"
    /\ pc' = [pc EXCEPT ![p] = "rlock"]
    /\ want' = [want EXCEPT ![p] = kid]
    /\ got' = [got EXCEPT ![p] = Nil]
    /\ UNCHANGED << validatorVars, envVars, tok, resp, ferr, ret, countVars,
                    mu, newKeys, jwksRest, fetched, loopVars, apiVars,
                    reqVars >>

\* RLock returns: no goroutine holds the lock for writing or is blocked in
\* Lock (a blocked Lock keeps new readers out).
getKeyRLock(p) ==
    /\ p \in Callers
    /\ pc[p] = "rlock"
    /\ mu.writer = NoCall
    /\ mu.blocked = {}
    /\ mu' = [mu EXCEPT !.readers = @ \cup {p}]
    /\ pc' = [pc EXCEPT ![p] = "rheld"]
    /\ UNCHANGED << validatorVars, envVars, tok, resp, ferr, ret, countVars,
                    newKeys, jwksRest, want, got, fetched, loopVars, apiVars,
                    reqVars >>

\* return v.keys[kid], then the deferred RUnlock.
getKeyReturn(p) ==
    /\ p \in Callers
    /\ pc[p] = "rheld"
    /\ got' = [got EXCEPT ![p] = getKey(keys, want[p])]
    /\ mu' = [mu EXCEPT !.readers = @ \ {p}]
    /\ pc' = [pc EXCEPT ![p] = "idle"]
    /\ UNCHANGED << validatorVars, envVars, tok, resp, ferr, ret, countVars,
                    newKeys, jwksRest, want, fetched, loopVars, apiVars,
                    reqVars >>

\* Variant: the closure takes keysMu before it sends the request.
muOnRequest_locked(p, m) == [m EXCEPT !.writer = p]

\* keysMu when the closure of p builds and sends the request: untouched.
muOnRequest(p, m) == m

\* Goroutine p calls fetchJWKS.
fetchJWKSCall(p) ==
    /\ pc[p] = "idle"
    /\ fetchJWKS(p)
    /\ mu' = IF doLeads(sf) THEN muOnRequest(p, mu) ELSE mu
    /\ UNCHANGED << cfg, keys, lastFetch, envVars, tok, resp, ferr, ret,
                    nLookup, nFetch, fresh, newKeys, jwksRest, want, got,
                    fetched, loopVars, apiVars,
                    reqVars >>

\* The closure fails on the response: transport error, status, decode.
fetchJWKSFail(p) ==
    /\ pc[p] = "recv"
    /\ fetchErr(resp[p][1]) # ""
    /\ fetchJWKSDone(p)
    /\ UNCHANGED failures

\* The closure accepts the response: newKeys := make(...), and the loop
\* over jwks.Keys begins.
fetchJWKSDecode(p) ==
    /\ pc[p] = "recv"
    /\ fetchErr(resp[p][1]) = ""
    /\ pc' = [pc EXCEPT ![p] = "build"]
    /\ newKeys' = [newKeys EXCEPT ![p] = EmptyKeys]
    /\ jwksRest' = [jwksRest EXCEPT ![p] = resp[p][1].Doc]
    /\ UNCHANGED << validatorVars, envVars, tok, resp, ferr, ret, countVars,
                    mu, want, got, fetched, loopVars, apiVars,
                    reqVars >>

\* Variant: the loop writes each key into v.keys itself.
buildInto_shared(p, m) ==
    /\ keys' = parseJWKS(<< Head(jwksRest[p]) >>, keys)
    /\ newKeys' = newKeys

\* One iteration of the loop over jwks.Keys ends with the closure's map m.
buildInto(p, m) ==
    /\ newKeys' = [newKeys EXCEPT ![p] = m]
    /\ keys' = keys

\* One iteration of the loop over jwks.Keys: the entry is skipped or its
\* key is put into newKeys.
fetchJWKSBuild(p) ==
    /\ pc[p] = "build"
    /\ jwksRest[p] # << >>
    /\ buildInto(p, parseJWKS(<< Head(jwksRest[p]) >>, newKeys[p]))
    /\ jwksRest' = [jwksRest EXCEPT ![p] = Tail(@)]
    /\ UNCHANGED << cfg, lastFetch, sf, envVars, procVars, countVars, mu,
                    want, got, fetched, loopVars, apiVars,
                    reqVars >>

\* The loop is over: the closure calls keysMu.Lock(), which keeps new
\* readers out from now on.
fetchJWKSLockCall(p) ==
    /\ pc[p] = "build"
    /\ jwksRest[p] = << >>
    /\ pc' = [pc EXCEPT ![p] = "lock"]
    /\ mu' = [mu EXCEPT !.blocked = @ \cup {p}]
    /\ UNCHANGED << validatorVars, envVars, tok, resp, ferr, ret, countVars,
                    newKeys, jwksRest, want, got, fetched, loopVars, apiVars,
                    reqVars >>

\* Lock returns: no writer and no reader holds the lock.
fetchJWKSLock(p) ==
    /\ pc[p] = "lock"
    /\ mu.writer = NoCall
    /\ mu.readers = {}
    /\ mu' = [mu EXCEPT !.writer = p, !.blocked = @ \ {p}]
    /\ pc' = [pc EXCEPT ![p] = "locked"]
    /\ UNCHANGED << validatorVars, envVars, tok, resp, ferr, ret, countVars,
                    newKeys, jwksRest, want, got, fetched, loopVars, apiVars,
                    reqVars >>

\* v.keys = newKeys; v.lastFetch = time.Now(); Unlock; the closure returns
\* nil and Do ends.
fetchJWKSStore(p) ==
    /\ pc[p] = "locked"
    /\ keys' = newKeys[p]
    /\ lastFetch' = now
    /\ mu' = [mu EXCEPT !.writer = NoCall]
    /\ doReturns(p, "")
    /\ resp' = [resp EXCEPT ![p] = << >>]
    /\ newKeys' = [newKeys EXCEPT ![p] = EmptyKeys]
    /\ UNCHANGED << cfg, envVars, tok, ret, nLookup, nFetch, fresh, jwksRest,
                    want, got, fetched, loopVars, apiVars,
                    reqVars >>

\* fetchJWKS has returned to a caller that is not ValidateToken.
fetchJWKSReturn(p) ==
    /\ p \in Callers
    /\ pc[p] = "back"
    /\ pc' = [pc EXCEPT ![p] = "idle"]
    /\ ferr' = [ferr EXCEPT ![p] = ""]
    /\ sent' = [sent EXCEPT ![p] = FALSE]
    /\ UNCHANGED << validatorVars, envVars, tok, resp, ret, nLookup, nFetch,
                    fresh, storeVars, loopVars, apiVars,
                    reqVars >>

-----------------------------------------------------------------------------
(* ValidateAPIKeyFull *)

\* ValidateAPIKeyFull(k) up to its first return or its GET: "Check cache
\* first"; an entry that has not expired is returned, an expired one is
\* deleted, and without a usable entry the request is sent.  The map has
\* no lock; the goroutines are taken to reach it one after the other, each
\* for the whole of its check or of its insertion.
cacheOrRequest(p, k) ==
    /\ apc[p] = "idle"
    /\ akey' = [akey EXCEPT ![p] = k]
    /\ IF k \in DOMAIN cache /\ notExpired(cache[k], now)
       THEN /\ apc' = [apc EXCEPT ![p] = "hit"]
            /\ aret' = [aret EXCEPT ![p] =
                            Validation(<< cache[k].info >>, "", 0)]
            /\ cache' = cache
       ELSE /\ apc' = [apc EXCEPT ![p] = "http"]
            /\ aret' = aret
            /\ cache' = cacheDelete(cache, k)
    /\ UNCHANGED << validatorVars, envVars, procVars, countVars, storeVars,
                    loopVars, mwVars, gateVars, ginVars, aresp, lastOK >>

\* The same, in a run that does not follow the slices and the map.
ValidateAPIKeyFull(p, k) ==
    /\ cacheOrRequest(p, k)
    /\ UNCHANGED refVars

\* The GET of the validate URL is answered, or the exchange fails.
APIRespond(p) ==
    /\ apc[p] = "http"
    /\ \E r \in APIResponses : aresp' = [aresp EXCEPT ![p] = << r >>]
    /\ apc' = [apc EXCEPT ![p] = "recv"]
    /\ UNCHANGED << validatorVars, envVars, procVars, countVars, storeVars,
                    loopVars, reqVars, cache, akey, aret, lastOK >>

\* The rest of ValidateAPIKeyFull: an error for a failed exchange, a
\* status other than 200 or a body that does not decode; otherwise
\* "Cache the result" and return it.
decodeAndCache(p) ==
    /\ apc[p] = "recv"
    /\ aret' = [aret EXCEPT ![p] = validationOf(aresp[p][1])]
    /\ cache' = cacheAfter(aresp[p][1], cache, akey[p], now)
    /\ lastOK' = IF apiErr(aresp[p][1]) = ""
                 THEN [lastOK EXCEPT ![akey[p]] =
                          << [At |-> now,
                              Res |-> Decode(aresp[p][1].Body[1])] >>]
                 ELSE lastOK
    /\ apc' = [apc EXCEPT ![p] = "done"]
    /\ aresp' = [aresp EXCEPT ![p] = << >>]
    /\ UNCHANGED << validatorVars, envVars, procVars, countVars, storeVars,
                    loopVars, mwVars, gateVars, ginVars, akey >>

\* The same, in a run that does not follow the slices and the map.
ValidateAPIKeyFullResponse(p) ==
    /\ decodeAndCache(p)
    /\ UNCHANGED refVars

\* The caller takes the result; the goroutine is free for another call.
resultTaken(p) ==
    /\ apc[p] \in {"hit", "done"}
    /\ apc' = [apc EXCEPT ![p] = "idle"]
    /\ akey' = [akey EXCEPT ![p] = NoAPIKey]
    /\ aret' = [aret EXCEPT ![p] = NoValidation]
    /\ UNCHANGED << validatorVars, envVars, procVars, countVars, storeVars,
                    loopVars, mwVars, gateVars, ginVars, cache, aresp,
                    lastOK >>

\* The same, in a run that does not follow the slices and the map.
APIReturn(p) ==
    /\ resultTaken(p)
    /\ UNCHANGED refVars

-----------------------------------------------------------------------------
(* The slices and the map of a result *)

\* Scopes, Roles and SubscriptionFeatures of an APIKeyValidationResult are
\* slices and SubscriptionLimits is a map: the struct holds references, and
\* copying the struct or assigning its fields copies the references.  heap
\* holds what the references of one decoded result point to; aret and cache
\* hold the fields as they were decoded.
Stores(res) ==
    [Scopes |-> res.Scopes, Roles |-> res.Roles,
     SubscriptionFeatures |-> res.SubscriptionFeatures,
     SubscriptionLimits |-> res.SubscriptionLimits]
Fields == {"Scopes", "Roles", "SubscriptionFeatures", "SubscriptionLimits"}

\* The result res as a reader sees it through the references in store.
Seen(res, store) ==
    [res EXCEPT !.Scopes = store.Scopes, !.Roles = store.Roles,
                !.SubscriptionFeatures = store.SubscriptionFeatures,
                !.SubscriptionLimits = store.SubscriptionLimits]

\* The references in use, and the heap after the garbage collector has
\* freed what no cache entry and no result points to.
inUse(cr, ar) ==
    ({ cr[k] : k \in APIKeys } \cup { ar[p] : p \in Callers }) \ {NoRef}
collect(h, cr, ar) ==
    [r \in Refs |-> IF r \in inUse(cr, ar) THEN h[r] ELSE Free]

\* The reference json Decode allocates: one that is not in use.
newRef(cr, ar) ==
    CHOOSE r \in Refs \ inUse(cr, ar) :
        \A x \in Refs \ inUse(cr, ar) : r <= x

\* ValidateAPIKeyFull up to the request.  On a hit the fields of the
\* returned struct are assigned from the entry (Scopes: info.scopes, ...):
\* the result points where the entry points.  delete drops the entry's
\* references.
ValidateAPIKeyFullShared(p, k) ==
    /\ cacheOrRequest(p, k)
    /\ IF apc'[p] = "hit"
       THEN /\ aref' = [aref EXCEPT ![p] = cref[k]]
            /\ UNCHANGED << heap, cref >>
       ELSE /\ cref' = [cref EXCEPT ![k] = NoRef]
            /\ aref' = aref
            /\ heap' = collect(heap, cref', aref')

\* The rest of ValidateAPIKeyFull.  Decode allocates the slices and the map
\* of result; the entry is built from result's fields (scopes:
\* result.Scopes, ...) and &result is returned: the entry and the result
\* point to the same stores.
ValidateAPIKeyFullResponseShared(p) ==
    /\ decodeAndCache(p)
    /\ IF apiErr(aresp[p][1]) = ""
       THEN LET k == akey[p]
                others == [cref EXCEPT ![k] = NoRef]
                r == newRef(others, aref)
            IN  /\ cref' = [cref EXCEPT ![k] = r]
                /\ aref' = [aref EXCEPT ![p] = r]
                /\ heap' = [collect(heap, cref', aref') EXCEPT
                              ![r] = << Stores(Decode(aresp[p][1].Body[1])) >>]
       ELSE UNCHANGED refVars

\* The request that held the result ends and the result is discarded.
APIReturnShared(p) ==
    /\ resultTaken(p)
    /\ aref' = [aref EXCEPT ![p] = NoRef]
    /\ cref' = cref
    /\ heap' = collect(heap, cref', aref')

\* What a write through a reference stores: an element of a slice, or the
\* limit of a metric.
Written(field) ==
    IF field = "SubscriptionLimits" THEN << "users", 0 >> ELSE "changed"

\* The caller that holds a result writes an element of one of its slices
\* (result.Scopes[0] = ...) or an entry of its map that is already there
\* (result.SubscriptionLimits["users"] = ...); so does a handler with the
\* Claims ToClaims made from the result, which point to the same stores.
Mutate(p, field) ==
    /\ apc[p] \in {"hit", "done"}
    /\ aret[p].Err = ""
    /\ aref[p] # NoRef
    /\ Len(heap[aref[p]][1][field]) > 0
    /\ heap' = [heap EXCEPT ![aref[p]][1][field][1] = Written(field)]
    /\ UNCHANGED << validatorVars, envVars, procVars, countVars, storeVars,
                    loopVars, apiVars, mwVars, gateVars, ginVars, cref,
                    aref >>

-----------------------------------------------------------------------------
(* ValidateAPIKeyFull at the grain of its accesses to v.cache *)

\* APIKeyValidator has no mutex: nothing orders the map accesses of two
\* goroutines.  A call stands inside the lookup v.cache[apiKey] ("look"),
\* between the lookup and the delete of an expired entry ("expired"),
\* inside delete(v.cache, apiKey) ("evict") or inside the assignment
\* v.cache[apiKey] = ... ("store"); an access takes effect when it ends.

\* Goroutine p is inside a read of the map.
Reading(p) == apc[p] = "look"
\* Goroutine p is inside a write of the map.
Writing(p) == apc[p] \in {"evict", "store"}

\* ValidateAPIKeyFull(k) is called and enters the lookup v.cache[apiKey].
cacheLookupBegin(p, k) ==
    /\ apc[p] = "idle"
    /\ apc' = [apc EXCEPT ![p] = "look"]
    /\ akey' = [akey EXCEPT ![p] = k]
    /\ UNCHANGED << validatorVars, envVars, procVars, countVars, storeVars,
                    loopVars, reqVars, cache, aresp, aret, lastOK >>

\* The lookup returns: an entry that has not expired is copied into a new
\* result and returned; an expired one is to be deleted; without an entry
\* the request is built and sent.
cacheLookupEnd(p) ==
    /\ apc[p] = "look"
    /\ IF akey[p] \notin DOMAIN cache
       THEN /\ apc' = [apc EXCEPT ![p] = "http"]
            /\ aret' = aret
       ELSE IF notExpired(cache[akey[p]], now)
       THEN /\ apc' = [apc EXCEPT ![p] = "hit"]
            /\ aret' = [aret EXCEPT ![p] =
                            Validation(<< cache[akey[p]].info >>, "", 0)]
       ELSE /\ apc' = [apc EXCEPT ![p] = "expired"]
            /\ aret' = aret
    /\ UNCHANGED << validatorVars, envVars, procVars, countVars, storeVars,
                    loopVars, reqVars, cache, akey, aresp, lastOK >>

\* "Cache expired, remove it": the call enters delete(v.cache, apiKey).
cacheDeleteBegin(p) ==
    /\ apc[p] = "expired"
    /\ apc' = [apc EXCEPT ![p] = "evict"]
    /\ UNCHANGED << validatorVars, envVars, procVars, countVars, storeVars,
                    loopVars, reqVars, cache, akey, aresp, aret, lastOK >>

\* delete returns; the request is built and sent.
cacheDeleteEnd(p) ==
    /\ apc[p] = "evict"
    /\ cache' = cacheDelete(cache, akey[p])
    /\ apc' = [apc EXCEPT ![p] = "http"]
    /\ UNCHANGED << validatorVars, envVars, procVars, countVars, storeVars,
                    loopVars, reqVars, akey, aresp, aret, lastOK >>

\* The response is handled: an error for a failed exchange, a status other
\* than 200 or a body that does not decode; otherwise the apiKeyInfo is
\* built, with expiresAt from the clock at this moment (kept next to the
\* response), and the call enters the assignment v.cache[apiKey] = ...
cacheStoreBegin(p) ==
    /\ apc[p] = "recv"
    /\ IF apiErr(aresp[p][1]) # ""
       THEN /\ apc' = [apc EXCEPT ![p] = "done"]
            /\ aret' = [aret EXCEPT ![p] = validationOf(aresp[p][1])]
            /\ aresp' = [aresp EXCEPT ![p] = << >>]
            /\ lastOK' = lastOK
       ELSE /\ apc' = [apc EXCEPT ![p] = "store"]
            /\ aret' = aret
            /\ aresp' = [aresp EXCEPT ![p] =
                            << aresp[p][1],
                               apiKeyInfo(Decode(aresp[p][1].Body[1]),
                                          expiresAtFrom(now)) >>]
            /\ lastOK' = [lastOK EXCEPT ![akey[p]] =
                             << [At |-> now,
                                 Res |-> Decode(aresp[p][1].Body[1])] >>]
    /\ UNCHANGED << validatorVars, envVars, procVars, countVars, storeVars,
                    loopVars, reqVars, cache, akey >>

\* The assignment returns, and the call returns &result.
cacheStoreEnd(p) ==
    /\ apc[p] = "store"
    /\ cache' = cachePut(cache, akey[p], aresp[p][2])
    /\ aret' = [aret EXCEPT ![p] = validationOf(aresp[p][1])]
    /\ aresp' = [aresp EXCEPT ![p] = << >>]
    /\ apc' = [apc EXCEPT ![p] = "done"]
    /\ UNCHANGED << validatorVars, envVars, procVars, countVars, storeVars,
                    loopVars, reqVars, akey, lastOK >>

\* A write of the map overlaps with another access of it: what follows is
\* not defined.  Either the accesses end as if one had come after the
\* other (the steps above, in either order), or the runtime notices the
\* overlap and throws "concurrent map writes" or "concurrent map read and
\* map write", which ends the process.
mapFatal ==
    /\ \E p \in Callers : \E q \in Callers \ {p} :
          Writing(p) /\ (Reading(q) \/ Writing(q))
    /\ apc' = [p \in Callers |-> "fatal"]
    /\ UNCHANGED << validatorVars, envVars, procVars, countVars, storeVars,
                    loopVars, reqVars, cache, akey, aresp, aret, lastOK >>

-----------------------------------------------------------------------------
(* AuthMiddleware.RequireAuth *)

\* Variant: a request whose bearer token is invalid is refused at once
\* (the handler of the middleware without API key support).
afterInvalidToken_refuse(a, r) == "401"

\* "Fallback to API key if JWT validation failed or no Bearer token": the
\* handler calls ValidateAPIKeyFull if the middleware has an
\* apiKeyValidator and the request an X-API-Key, and writes 401 otherwise.
fallback(a, r) == IF a.apiKeyValidator /\ r.APIKey # "" THEN "key" ELSE "401"

\* Where the handler goes when ValidateToken has returned an error.
afterInvalidToken(a, r) == fallback(a, r)

\* The handler has reached position m: the status 401 is written there.
outAt(m) == IF m = "401" THEN Outcome(401, << >>) ELSE NoOutcome

\* The handler of middleware a is entered by goroutine p with request r,
\* up to its first call: ValidateToken for a bearer token, else the
\* fallback.
requireAuthBegin(p, a, r) ==
    /\ mw[p] = "idle"
    /\ pc[p] = "idle"
    /\ apc[p] = "idle"
    /\ rq' = [rq EXCEPT ![p] = [A |-> a, R |-> r]]
    /\ LET m == IF hasBearer(r) THEN "jwt" ELSE fallback(a, r)
       IN  /\ mw' = [mw EXCEPT ![p] = m]
           /\ out' = [out EXCEPT ![p] = outAt(m)]
    /\ UNCHANGED << validatorVars, envVars, procVars, countVars, storeVars,
                    loopVars, apiVars, gateVars, refVars >>

\* The handler RequireAuth returns is called through net/http.
RequireAuth(p, a, r) ==
    /\ requireAuthBegin(p, a, r)
    /\ UNCHANGED ginVars

\* claims, err := a.validator.ValidateToken(tokenStr): the call is made.
RequireAuthValidateToken(p) ==
    /\ mw[p] = "jwt"
    /\ ValidateToken(p, rq[p].R.Token)

\* ValidateToken has returned: with claims the handler puts them in the
\* context and calls next; with an error it falls back.
RequireAuthToken(p) ==
    /\ mw[p] = "jwt"
    /\ pc[p] = "done"
    /\ LET m == IF ret[p].Err = "" THEN "next"
                ELSE afterInvalidToken(rq[p].A, rq[p].R)
       IN  /\ mw' = [mw EXCEPT ![p] = m]
           /\ out' = [out EXCEPT ![p] =
                         IF m = "next" THEN Outcome(200, << ret[p].Claims >>)
                         ELSE outAt(m)]
    /\ pc' = [pc EXCEPT ![p] = "idle"]
    /\ tok' = [tok EXCEPT ![p] = Garbage]
    /\ ret' = [ret EXCEPT ![p] = NoResult]
    /\ nLookup' = [nLookup EXCEPT ![p] = 0]
    /\ nFetch' = [nFetch EXCEPT ![p] = 0]
    /\ fresh' = [fresh EXCEPT ![p] = FALSE]
    /\ UNCHANGED << validatorVars, envVars, resp, ferr, sent, storeVars,
                    loopVars, apiVars, rq, gateVars, refVars, ginVars >>

\* result, err := a.apiKeyValidator.ValidateAPIKeyFull(ctx, apiKey): the
\* call is made.
RequireAuthValidateAPIKey(p) ==
    /\ mw[p] = "key"
    /\ ValidateAPIKeyFull(p, rq[p].R.APIKey)

\* ValidateAPIKeyFull has returned: with a result the handler converts it
\* to Claims, sets the subject, puts them in the context and calls next;
\* with an error it writes 401.
RequireAuthAPIKey(p) ==
    /\ mw[p] = "key"
    /\ apc[p] \in {"hit", "done"}
    /\ IF aret[p].Err = ""
       THEN /\ mw' = [mw EXCEPT ![p] = "next"]
            /\ out' = [out EXCEPT ![p] =
                          Outcome(200, << apiKeyClaims(aret[p].Res[1]) >>)]
       ELSE /\ mw' = [mw EXCEPT ![p] = "401"]
            /\ out' = [out EXCEPT ![p] = outAt("401")]
    /\ apc' = [apc EXCEPT ![p] = "idle"]
    /\ akey' = [akey EXCEPT ![p] = NoAPIKey]
    /\ aret' = [aret EXCEPT ![p] = NoValidation]
    /\ UNCHANGED << validatorVars, envVars, procVars, countVars, storeVars,
                    loopVars, cache, aresp, lastOK, rq, gateVars, refVars,
                    ginVars >>

\* The handler returns: next has returned, or the error has been written.
requireAuthEnd(p) ==
    /\ mw[p] \in {"next", "401"}
    /\ mw' = [mw EXCEPT ![p] = "idle"]
    /\ rq' = [rq EXCEPT ![p] = [A |-> NewAuthMiddleware, R |-> NoRequest]]
    /\ out' = [out EXCEPT ![p] = NoOutcome]
    /\ UNCHANGED << validatorVars, envVars, procVars, countVars, storeVars,
                    loopVars, apiVars, gateVars, refVars >>

\* The handler returns to net/http.
RequireAuthReturn(p) ==
    /\ requireAuthEnd(p)
    /\ UNCHANGED ginVars

\* gin.Engine serves a request: c.reset(), then c.Next() calls the first
\* handler of the chain, the function GinMiddleware returned, which calls
\* handler.ServeHTTP(c.Writer, c.Request), the handler of RequireAuth.
GinMiddleware(p, a, r) ==
    /\ gin[p].index \notin 0..(Len(Handlers) - 1)
    /\ requireAuthBegin(p, a, r)
    /\ gin' = [gin EXCEPT ![p] = GinContext(0, 0, FALSE)]

\* The next handler GinMiddleware gave to RequireAuth: c.Request = r and
\* c.Next(), which runs the rest of the chain and leaves c.index at its
\* end.
GinInnerNext(p) ==
    /\ mw[p] = "next"
    /\ gin[p].index = 0
    /\ gin' = [gin EXCEPT ![p] = GinContext(Len(Handlers), @.written, TRUE)]
    /\ UNCHANGED << validatorVars, envVars, procVars, countVars, storeVars,
                    loopVars, apiVars, mwVars, gateVars, refVars >>

\* handler.ServeHTTP returns, with the status writeAuthError wrote in
\* c.Writer if it wrote one, and the function GinMiddleware returned
\* returns after if c.IsAborted() { return }: nothing has called c.Abort().
\* The loop of c.Next() of the engine does c.index++.
GinMiddlewareReturn(p) ==
    /\ mw[p] = "next" => gin[p].index = Len(Handlers)
    /\ requireAuthEnd(p)
    /\ gin' = [gin EXCEPT ![p] =
                  GinContext(@.index + 1,
                             IF mw[p] = "401" THEN 401 ELSE @.written,
                             @.ran)]

\* The loop of c.Next() of the engine: for c.index < len(c.handlers) it
\* calls c.handlers[c.index](c) and does c.index++.
GinEngineNext(p) ==
    /\ mw[p] = "idle"
    /\ gin[p].index \in 1..(Len(Handlers) - 1)
    /\ gin' = [gin EXCEPT ![p] = GinContext(@.index + 1, @.written, TRUE)]
    /\ UNCHANGED << validatorVars, envVars, procVars, countVars, storeVars,
                    loopVars, apiVars, mwVars, gateVars, refVars >>

-----------------------------------------------------------------------------
(* Role, feature and plan gates *)

\* The gates answer a request without claims in its context with 401
\* "missing claims"; with claims c they call next ("next") or write 403
\* with the message or code named here.
roleGate(c, roles) ==
    IF IsSuperuser(c) THEN "next"
    ELSE IF ~HasAnyRole(c, roles) THEN "insufficient role"
    ELSE "next"

\* Variant: the feature is looked at before the subscription.
featureGate_featureFirst(c, feature) ==
    IF IsSuperuser(c) THEN "next"
    ELSE IF ~HasFeature(c, feature) THEN "feature_not_available"
    ELSE IF ~IsSubscriptionActive(c) THEN "subscription_inactive"
    ELSE "next"

featureGate(c, feature) ==
    IF IsSuperuser(c) THEN "next"
    ELSE IF ~IsSubscriptionActive(c) THEN "subscription_inactive"
    ELSE IF ~HasFeature(c, feature) THEN "feature_not_available"
    ELSE "next"

anyFeatureGate(c, features) ==
    IF IsSuperuser(c) THEN "next"
    ELSE IF ~IsSubscriptionActive(c) THEN "subscription_inactive"
    ELSE IF ~HasAnyFeature(c, features) THEN "feature_not_available"
    ELSE "next"

planGate(c, plan) ==
    IF IsSuperuser(c) THEN "next"
    ELSE IF ~IsSubscriptionActive(c) THEN "subscription_inactive"
    ELSE IF ~IsAtLeastPlan(c, plan) THEN "plan_upgrade_required"
    ELSE "next"

subscriptionGate(c) ==
    IF IsSuperuser(c) THEN "next"
    ELSE IF ~IsSubscriptionActive(c) THEN "subscription_inactive"
    ELSE "next"

\* A gate or helper fn is applied with argument arg and does or answers r.
Applied(fn, arg, r) ==
    /\ call' = Call(fn, arg)
    /\ result' = r
    /\ UNCHANGED << validatorVars, envVars, procVars, countVars, storeVars,
                    loopVars, apiVars, mwVars, ctx, refVars, ginVars >>

\* The handler of a gate: claims, ok := ClaimsFromContext(r.Context()).
Gate(fn, arg, answer) ==
    Applied(fn, arg, IF ctx = NoContext THEN "missing claims" ELSE answer)

RequireRole(roles) ==
    Gate("RequireRole", roles,
         IF ctx = NoContext THEN "" ELSE roleGate(ctx[1], roles))

\* RequireAdmin is RequireRole("admin", "superuser").
RequireAdmin == RequireRole(<< "admin", "superuser" >>)

RequireFeature(feature) ==
    Gate("RequireFeature", feature,
         IF ctx = NoContext THEN "" ELSE featureGate(ctx[1], feature))

RequireAnyFeature(features) ==
    Gate("RequireAnyFeature", features,
         IF ctx = NoContext THEN "" ELSE anyFeatureGate(ctx[1], features))

RequirePlan(plan) ==
    Gate("RequirePlan", plan,
         IF ctx = NoContext THEN "" ELSE planGate(ctx[1], plan))

RequireActiveSubscription ==
    Gate("RequireActiveSubscription", << >>,
         IF ctx = NoContext THEN "" ELSE subscriptionGate(ctx[1]))

\* RequireScope asks for any of the scopes, RequireAllScopes for all.
RequireScope(scopes) ==
    Gate("RequireScope", scopes,
         IF ctx = NoContext THEN ""
         ELSE IF ~HasAnyScope(ctx[1], scopes) THEN "insufficient scopes"
         ELSE "next")

RequireAllScopes(scopes) ==
    Gate("RequireAllScopes", scopes,
         IF ctx = NoContext THEN ""
         ELSE IF ~HasAllScopes(ctx[1], scopes) THEN "insufficient scopes"
         ELSE "next")

\* A handler behind the gates asks the Claims of its context.
AskHasScope(scope) ==
    /\ ctx # NoContext
    /\ Applied("HasScope", scope,
               IF HasScope(ctx[1], scope) THEN "true" ELSE "false")

AskHasAnyScope(scopes) ==
    /\ ctx # NoContext
    /\ Applied("HasAnyScope", scopes,
               IF HasAnyScope(ctx[1], scopes) THEN "true" ELSE "false")

AskHasAllScopes(scopes) ==
    /\ ctx # NoContext
    /\ Applied("HasAllScopes", scopes,
               IF HasAllScopes(ctx[1], scopes) THEN "true" ELSE "false")

AskIsAdmin ==
    /\ ctx # NoContext
    /\ Applied("IsAdmin", << >>, IF IsAdmin(ctx[1]) THEN "true" ELSE "false")

AskIsAtLeastPlan(plan) ==
    /\ ctx # NoContext
    /\ Applied("IsAtLeastPlan", plan,
               IF IsAtLeastPlan(ctx[1], plan) THEN "true" ELSE "false")

AskIsSubscriptionActive ==
    /\ ctx # NoContext
    /\ Applied("IsSubscriptionActive", << >>,
               IF IsSubscriptionActive(ctx[1]) THEN "true" ELSE "false")

-----------------------------------------------------------------------------
(* Specifications *)

\* callers validate tokens of the set tokens, the goroutines procs fetch.
NextFor(callers, procs, tokens) ==
    \/ \E p \in callers : \E tk \in tokens : ValidateToken(p, tk)
    \/ \E p \in callers : ValidateTokenRefresh(p)
    \/ \E p \in callers : ValidateTokenRetry(p)
    \/ \E p \in callers : Return(p)
    \/ \E p \in procs : HttpRespond(p)
    \/ \E p \in procs : fetchJWKSComplete(p)
    \/ Rotate

\* Concurrent callers and the background loop against a rotating endpoint;
\* the tokens differ in header and signing key.
Next ==
    \/ NextFor(Callers, Procs, KeyTokens)
    \/ refreshLoop

Spec == Init /\ [][Next]_vars

\* One caller, every token and every configuration, with time passing.
InitValidate == \E d \in Docs : InitWith(Configs, d)

NextValidate ==
    \/ NextFor({"c1"}, {"c1"}, Tokens)
    \/ Tick

SpecValidate == InitValidate /\ [][NextValidate]_vars

\* The key store alone, at the grain of keysMu: both callers call getKey,
\* one of them and the background loop call fetchJWKS, against a rotating
\* endpoint.
Fetchers == {"c2", Loop}

NextStore ==
    \/ \E p \in Callers : \E kid \in Kids : getKeyCall(p, kid)
    \/ \E p \in Callers : getKeyRLock(p)
    \/ \E p \in Callers : getKeyReturn(p)
    \/ \E p \in Fetchers : fetchJWKSCall(p)
    \/ \E p \in Fetchers : HttpRespondRecorded(p)
    \/ \E p \in Fetchers : fetchJWKSFail(p)
    \/ \E p \in Fetchers : fetchJWKSDecode(p)
    \/ \E p \in Fetchers : fetchJWKSBuild(p)
    \/ \E p \in Fetchers : fetchJWKSLockCall(p)
    \/ \E p \in Fetchers : fetchJWKSLock(p)
    \/ \E p \in Fetchers : fetchJWKSStore(p)
    \/ \E p \in Fetchers : fetchJWKSReturn(p)
    \/ Rotate

SpecStore == Init /\ [][NextStore]_vars

\* One caller and the background loop until and after Stop, with time
\* passing, under the default CacheTTL and under one that runs out.
InitLoop ==
    \E d \in Docs : InitWith({DefaultConfig, ShortCacheTTL(DefaultConfig)}, d)

NextLoop ==
    \/ \E tk \in KeyTokens : ValidateToken("c1", tk)
    \/ ValidateTokenRefresh("c1")
    \/ ValidateTokenRetry("c1")
    \/ Return("c1")
    \/ \E p \in {"c1", Loop} : HttpRespond(p)
    \/ \E p \in {"c1", Loop} : fetchJWKSCounted(p)
    \/ refreshLoop
    \/ refreshLoopExit
    \/ Stop
    \/ Rotate
    \/ Tick

SpecLoop == InitLoop /\ [][NextLoop]_vars

\* Every GET ends (the HTTP client and the loop's context time out after
\* ten seconds), a goroutine that can run does, and a select that finds
\* stopRefresh closed again and again takes that case in the end.
FairLoop ==
    /\ \A p \in {"c1", Loop} : WF_vars(HttpRespond(p))
    /\ \A p \in {"c1", Loop} : WF_vars(fetchJWKSCounted(p))
    /\ WF_vars(ValidateTokenRefresh("c1"))
    /\ SF_vars(refreshLoopExit)

SpecLoopFair == SpecLoop /\ FairLoop

\* Two callers whose token names a key the mapping may lack, the background
\* loop and Stop, against a rotating endpoint.
NextCalls ==
    \/ NextFor(Callers, Procs, {KeyToken("RS256", "k2", 2)})
    \/ refreshLoop
    \/ refreshLoopExit
    \/ Stop

SpecCalls == Init /\ [][NextCalls]_vars

\* Every GET ends, and a goroutine that can run does: the process that
\* sent a GET takes its result, a caller waiting on the shared fetch takes
\* the result, and a caller back from the refresh looks its key up again.
FairCalls ==
    /\ \A p \in Procs : WF_vars(HttpRespond(p))
    /\ \A p \in Procs : WF_vars(fetchJWKSComplete(p))
    /\ \A p \in Callers : WF_vars(ValidateTokenRefresh(p))
    /\ \A p \in Callers : WF_vars(ValidateTokenRetry(p))

SpecCallsFair == SpecCalls /\ FairCalls

\* Before NewValidator: no mapping, no refreshLoop, and c1 about to call.
InitNew ==
    /\ keys = EmptyKeys
    /\ served \in Docs
    /\ pc = [p \in Procs |-> IF p = "c1" THEN "new"
                              ELSE IF p = Loop THEN "unborn" ELSE "idle"]
    /\ InitFields({DefaultConfig}, {NoContext})

\* NewValidator and, with the Validator it returned, the calls of c1 and
\* the background loop, against a rotating endpoint.
NextNew ==
    \/ NewValidator
    \/ NewValidatorReturn
    \/ \E p \in {"c1", Loop} : HttpRespondRecorded(p)
    \/ \E p \in {"c1", Loop} : fetchJWKSComplete(p)
    \/ \E tk \in KeyTokens : ValidateToken("c1", tk)
    \/ ValidateTokenRefresh("c1")
    \/ pc[Loop] # "unborn" /\ ValidateTokenRetry("c1")
    \/ Return("c1")
    \/ refreshLoop
    \/ Rotate

SpecNew == InitNew /\ [][NextNew]_vars

\* One APIKeyValidator: two goroutines validate two keys while time
\* passes.
NextAPIKey ==
    \/ \E p \in Callers : \E k \in APIKeys : ValidateAPIKeyFull(p, k)
    \/ \E p \in Callers : APIRespond(p)
    \/ \E p \in Callers : ValidateAPIKeyFullResponse(p)
    \/ \E p \in Callers : APIReturn(p)
    \/ TickAPIKey

SpecAPIKey == InitWith({DefaultConfig}, DocA) /\ [][NextAPIKey]_vars

\* One APIKeyValidator at the grain of its map accesses: two goroutines
\* validate two keys while time passes.
NextAPIKeyRace ==
    \/ \E p \in Callers : \E k \in APIKeys : cacheLookupBegin(p, k)
    \/ \E p \in Callers : cacheLookupEnd(p)
    \/ \E p \in Callers : cacheDeleteBegin(p)
    \/ \E p \in Callers : cacheDeleteEnd(p)
    \/ \E p \in Callers : APIRespond(p)
    \/ \E p \in Callers : cacheStoreBegin(p)
    \/ \E p \in Callers : cacheStoreEnd(p)
    \/ \E p \in Callers : APIReturn(p)
    \/ mapFatal
    \/ TickAPIKey

SpecAPIKeyRace == InitWith({DefaultConfig}, DocA) /\ [][NextAPIKeyRace]_vars

\* One goroutine serves requests through RequireAuth, of a middleware with
\* and of one without an apiKeyValidator, over the one Validator.
Middlewares == {NewAuthMiddleware, NewAuthMiddlewareWithAPIKey}

NextMiddleware ==
    \/ \E a \in Middlewares : \E r \in Requests : RequireAuth("c1", a, r)
    \/ RequireAuthValidateToken("c1")
    \/ ValidateTokenRefresh("c1")
    \/ HttpRespond("c1")
    \/ fetchJWKSComplete("c1")
    \/ ValidateTokenRetry("c1")
    \/ RequireAuthToken("c1")
    \/ RequireAuthValidateAPIKey("c1")
    \/ APIRespond("c1")
    \/ ValidateAPIKeyFullResponse("c1")
    \/ RequireAuthAPIKey("c1")
    \/ RequireAuthReturn("c1")

SpecMiddleware == Init /\ [][NextMiddleware]_vars

\* The API key path with the references of its results followed: two
\* callers validate keys, write to the results they hold and let them go.
NextAPIKeyShared ==
    \/ \E p \in Callers : \E k \in APIKeys : ValidateAPIKeyFullShared(p, k)
    \/ \E p \in Callers : APIRespond(p)
    \/ \E p \in Callers : ValidateAPIKeyFullResponseShared(p)
    \/ \E p \in Callers : \E field \in Fields : Mutate(p, field)
    \/ \E p \in Callers : APIReturnShared(p)

SpecAPIKeyShared ==
    InitWith({DefaultConfig}, DocA) /\ [][NextAPIKeyShared]_vars

\* The background loop alone refreshes from an endpoint that publishes any
\* document of EntryDocs.
NextJWKS ==
    \/ Publish
    \/ refreshLoop
    \/ HttpRespond(Loop)
    \/ fetchJWKSCounted(Loop)

SpecJWKS == InitWith({DefaultConfig}, DocA) /\ [][NextJWKS]_vars

\* RequireAuth behind GinMiddleware, in the chain of a Gin router.
NextGin ==
    \/ \E a \in Middlewares : \E r \in Requests : GinMiddleware("c1", a, r)
    \/ RequireAuthValidateToken("c1")
    \/ ValidateTokenRefresh("c1")
    \/ HttpRespond("c1")
    \/ fetchJWKSComplete("c1")
    \/ ValidateTokenRetry("c1")
    \/ RequireAuthToken("c1")
    \/ RequireAuthValidateAPIKey("c1")
    \/ APIRespond("c1")
    \/ ValidateAPIKeyFullResponse("c1")
    \/ RequireAuthAPIKey("c1")
    \/ GinInnerNext("c1")
    \/ GinMiddlewareReturn("c1")
    \/ GinEngineNext("c1")

SpecGin == Init /\ [][NextGin]_vars

\* One caller, every token, with time passing, under every configuration
\* of issuer and audience with the default CacheTTL and with a short one.
AllConfigs == Configs \cup { ShortCacheTTL(cf) : cf \in Configs }

InitValidateConfigs == \E d \in Docs : InitWith(AllConfigs, d)

SpecValidateConfigs == InitValidateConfigs /\ [][NextValidate]_vars

\* A request with any of the Claims in its context, or with none, goes
\* through the gates, and its handler asks the Claims.
InitGates ==
    InitAll({DefaultConfig}, DocA,
            {NoContext} \cup { << c >> : c \in GateClaims \cup ScopeClaims })

NextGates ==
    \/ \E roles \in { << >>, << "admin" >>, << "user", "manager" >> } :
          RequireRole(roles)
    \/ RequireAdmin
    \/ \E feature \in {"export", "sso"} : RequireFeature(feature)
    \/ \E features \in { << >>, << "sso", "audit" >> } :
          RequireAnyFeature(features)
    \/ \E plan \in Plans : RequirePlan(plan)
    \/ RequireActiveSubscription
    \/ AskIsAdmin
    \/ \E plan \in Plans : AskIsAtLeastPlan(plan)
    \/ AskIsSubscriptionActive
    \/ \E scopes \in ScopeArgs : RequireScope(scopes)
    \/ \E scopes \in ScopeArgs : RequireAllScopes(scopes)
    \/ \E scope \in {"read", "delete"} : AskHasScope(scope)
    \/ \E scopes \in ScopeArgs : AskHasAnyScope(scopes)
    \/ \E scopes \in ScopeArgs : AskHasAllScopes(scopes)

SpecGates == InitGates /\ [][NextGates]_vars

-----------------------------------------------------------------------------
(* Properties of ValidateToken *)

\* The step in which the ValidateToken call of p returns.
Returns(p) == pc[p] # "done" /\ pc'[p] = "done"

\* The step in which the key function of p's call calls getKey.
LooksUp(p) == nLookup'[p] = nLookup[p] + 1

\* tk is a well-formed RS256 token whose kid names, in the mapping ks, the
\* key that signed it.
SignedByStoredKey(tk, ks) ==
    /\ tk.WellFormed
    /\ tk.Alg = "RS256"
    /\ tk.Kid \in DOMAIN ks
    /\ ks[tk.Kid] = tk.Signer

Expired(tk, t) == tk.Exp # << >> /\ tk.Exp[1] <= t
NotYetValid(tk, t) == tk.Nbf # << >> /\ t < tk.Nbf[1]
InWindow(tk, t) == ~Expired(tk, t) /\ ~NotYetValid(tk, t)

IssuerMatches(cf, tk) == cf.Issuer = "" \/ tk.Iss = cf.Issuer
InAudience(a, tk) == a \in { tk.Aud[i] : i \in 1..Len(tk.Aud) }
AudienceMatches(cf, tk) == cf.Audience = "" \/ InAudience(cf.Audience, tk)

\* C1: a well-formed RS256 token whose signing key the key store holds
\* under the token's kid, whose issuer and audience match the configuration
\* and which is inside its validity window when it is checked, is accepted,
\* and the returned Claims carry the token's subject.
C1_ValidTokenAccepted ==
    [][\A p \in Callers :
          ( /\ Returns(p)
            /\ LooksUp(p)
            /\ SignedByStoredKey(tok'[p], keys)
            /\ IssuerMatches(cfg, tok'[p])
            /\ AudienceMatches(cfg, tok'[p])
            /\ InWindow(tok'[p], now) )
          => ( /\ ret'[p].Err = ""
               /\ ret'[p].Claims.Subject = tok'[p].Sub )]_vars

\* A token with issuer, a second audience next to the configured one and an
\* expiry has been accepted under a configuration that checks both.
C1_Witness ==
    \E p \in Callers :
        /\ pc[p] = "done"
        /\ ret[p].Err = ""
        /\ ret[p].Claims.Subject = "user-42"
        /\ cfg = DefaultConfig
        /\ tok[p].Aud = << "other", "svc" >>
        /\ tok[p].Exp # << >>

\* C2: a well-formed token whose header algorithm is not RS256 is rejected
\* for its algorithm, before any key is looked up, whatever the key store
\* holds under its kid.
C2_OnlyRS256 ==
    \A p \in Callers :
        (pc[p] = "done" /\ tok[p].WellFormed /\ tok[p].Alg # "RS256")
        => (ret[p].Err = "alg" /\ nLookup[p] = 0)

\* An RS384 token signed by the very key the store holds under its kid has
\* been rejected.
C2_Witness ==
    \E p \in Callers :
        /\ pc[p] = "done"
        /\ tok[p].Alg = "RS384"
        /\ tok[p].Kid \in DOMAIN keys
        /\ keys[tok[p].Kid] = tok[p].Signer
        /\ ret[p].Err = "alg"

\* C3: a call that returns when the token's expiry has passed, or when its
\* not-before is still ahead, returns an error, under every configuration
\* and whatever key signed the token.
C3_TemporalClaimsEnforced ==
    [][\A p \in Callers :
          (Returns(p) /\ (Expired(tok'[p], now) \/ NotYetValid(tok'[p], now)))
          => ret'[p].Err # ""]_vars

\* An expired token, correctly signed, has been rejected as expired by a
\* Validator with neither issuer nor audience configured.
C3_Witness ==
    \E p \in Callers :
        /\ pc[p] = "done"
        /\ cfg = Config("", "")
        /\ ret[p].Err = "expired"
        /\ SignedByStoredKey(tok[p], keys)

\* C4: with an issuer configured, Claims are returned only for a token whose
\* issuer claim equals it; a token that passes signature and temporal checks
\* with any other issuer, or none, is rejected with the invalid-issuer error.
C4_IssuerExact ==
    [][\A p \in Callers :
          (Returns(p) /\ cfg.Issuer # "")
          => ( /\ ret'[p].Err = "" => tok'[p].Iss = cfg.Issuer
               /\ ( /\ LooksUp(p)
                    /\ SignedByStoredKey(tok'[p], keys)
                    /\ InWindow(tok'[p], now)
                    /\ tok'[p].Iss # cfg.Issuer )
                  => ret'[p].Err = "issuer" )]_vars

\* A correctly signed token without an issuer claim has been rejected with
\* the invalid-issuer error.
C4_Witness ==
    \E p \in Callers :
        /\ pc[p] = "done"
        /\ cfg.Issuer # ""
        /\ tok[p].Iss = ""
        /\ ret[p].Err = "issuer"

\* C5: with an audience configured, Claims are returned only for a token
\* whose audience list contains it; a token that passes the signature,
\* temporal and issuer checks is accepted when its list contains the
\* configured audience (among others or alone) and rejected with the
\* invalid-audience error when its list is empty or lacks it.
C5_AudienceMembership ==
    [][\A p \in Callers :
          (Returns(p) /\ cfg.Audience # "")
          => ( /\ ret'[p].Err = "" => InAudience(cfg.Audience, tok'[p])
               /\ ( /\ LooksUp(p)
                    /\ SignedByStoredKey(tok'[p], keys)
                    /\ InWindow(tok'[p], now)
                    /\ IssuerMatches(cfg, tok'[p]) )
                  => IF InAudience(cfg.Audience, tok'[p])
                     THEN ret'[p].Err = ""
                     ELSE ret'[p].Err = "audience" )]_vars

\* A correctly signed token whose audience list holds only another
\* audience has been rejected with the invalid-audience error.
C5_Witness ==
    \E p \in Callers :
        /\ pc[p] = "done"
        /\ cfg.Audience # ""
        /\ tok[p].Aud = << "other" >>
        /\ ret[p].Err = "audience"

-----------------------------------------------------------------------------
(* Properties of fetchJWKS *)

\* A GET of the JWKS URL is under way for goroutine p.
Requesting(p) == pc[p] \in {"http", "recv"}
InFlight == \E l \in Procs : Requesting(l)

\* The step in which goroutine p calls fetchJWKS.
CallsFetch(p) ==
    \/ p \in Callers /\ pc[p] = "miss" /\ pc'[p] # "miss"
    \/ p = Loop /\ pc[p] = "idle" /\ pc'[p] # "idle"

\* The step in which the fetch led by goroutine p ends.
Completes(p) == pc[p] = "recv" /\ pc'[p] # "recv"

\* Response r makes the refresh fail.
Failed(r) == ~r.Net \/ r.Status # 200 \/ ~r.Json

\* The kids of the entries of doc that a refresh retains.
UsableKids(doc) ==
    { doc[i].Kid : i \in { j \in 1..Len(doc) :
                             /\ doc[j].Kty = "RSA"
                             /\ doc[j].Use = "sig"
                             /\ doc[j].Alg = "RS256"
                             /\ doc[j].N # BadB64
                             /\ doc[j].E # BadB64 } }

\* C6: at most one GET of the JWKS URL is under way at any time; a
\* fetchJWKS call that starts while one is under way, from ValidateToken or
\* from the background loop, sends no request of its own, waits, and
\* returns the error (or nil) of that fetch, as does the goroutine that
\* led it.
C6_SingleFlight ==
    /\ [](/\ Cardinality({ p \in Procs : Requesting(p) }) <= 1
          /\ \A p \in Procs : pc[p] = "wait" => InFlight)
    /\ [][\A p \in Procs :
            /\ (CallsFetch(p) /\ InFlight)
               => (pc'[p] = "wait" /\ ~sent'[p])
            /\ (pc[p] = "wait" /\ pc'[p] # "wait")
               => \E l \in Procs \ {p} :
                     /\ Completes(l)
                     /\ ~sent[p]
                     /\ p \in Callers => ferr'[p] = fetchErr(resp[l][1])
                     /\ l \in Callers => ferr'[l] = fetchErr(resp[l][1])]_vars

\* Two ValidateToken calls have come back from one failed fetch with the
\* same error; only one of them sent a request.
C6_Witness ==
    \E p \in Callers : \E l \in Callers \ {p} :
        /\ pc[p] = "back" /\ pc[l] = "back"
        /\ sent[l] /\ ~sent[p]
        /\ ferr[p] = "status" /\ ferr[l] = "status"

\* C7: a refresh whose GET ends in a transport error, a status other than
\* 200 or a body that is not JSON returns an error and leaves v.keys and
\* v.lastFetch as they were.
C7_FailedRefreshKeepsKeys ==
    [][\A p \in Callers :
          (Completes(p) /\ Failed(resp[p][1]))
          => ( /\ ferr'[p] # ""
               /\ keys' = keys
               /\ lastFetch' = lastFetch )]_vars

\* A refresh has failed on an undecodable body at a later time than the
\* last successful fetch, and the mapping still holds keys.
C7_Witness ==
    \E p \in Callers :
        /\ pc[p] = "back"
        /\ ferr[p] = "json"
        /\ DOMAIN keys # {}
        /\ lastFetch < now

\* C8: a successful refresh leaves in v.keys exactly the kids of the usable
\* entries of the fetched document; getKey finds no other kid, whether or
\* not the mapping held it before.
C8_ReplacedWholesale ==
    [][\A p \in Procs :
          (Completes(p) /\ ~Failed(resp[p][1]))
          => ( /\ DOMAIN keys' = UsableKids(resp[p][1].Doc)
               /\ \A k \in Kids \ UsableKids(resp[p][1].Doc) :
                     getKey(keys', k) = Nil )]_vars

\* A token was accepted with a key of the mapping, and a later refresh has
\* removed its kid.
C8_Witness ==
    \E p \in Callers :
        /\ pc[p] = "done"
        /\ ret[p].Err = ""
        /\ tok[p].Kid \notin DOMAIN keys

\* C9: a ValidateToken call whose getKey misses calls fetchJWKS once and
\* nothing else; after a failed refresh it returns an error without a
\* second getKey, after a successful one it calls getKey once more and
\* returns an error if the kid is still absent; it never fetches or looks
\* up again.
C9_OneRefreshOneRetry ==
    /\ [](\A p \in Callers :
            /\ nFetch[p] <= 1
            /\ nLookup[p] <= 2
            /\ pc[p] = "miss" => (nFetch[p] = 0 /\ nLookup[p] = 1)
            /\ pc[p] \in {"http", "recv", "wait", "back"}
               => (nFetch[p] = 1 /\ nLookup[p] = 1))
    /\ [][\A p \in Callers :
            /\ (pc[p] = "idle" /\ LooksUp(p) /\ tok'[p].Kid \notin DOMAIN keys)
               => pc'[p] = "miss"
            /\ (pc[p] = "miss" /\ pc'[p] # "miss")
               => (pc'[p] \in {"http", "wait"} /\ nFetch'[p] = 1)
            /\ (pc[p] = "back" /\ pc'[p] # "back")
               => ( /\ pc'[p] = "done"
                    /\ nFetch'[p] = 1
                    /\ IF ferr[p] # ""
                       THEN ret'[p].Err = "refresh" /\ nLookup'[p] = 1
                       ELSE /\ nLookup'[p] = 2
                            /\ tok[p].Kid \notin DOMAIN keys
                               => ret'[p].Err = "notfound" )]_vars

\* A call has returned the unknown-key error after one refresh and the one
\* retry of the lookup.
C9_Witness ==
    \E p \in Callers :
        /\ pc[p] = "done"
        /\ ret[p].Err = "notfound"
        /\ nFetch[p] = 1
        /\ nLookup[p] = 2

\* C10: a ValidateToken call on an otherwise valid token whose kid the
\* mapping lacked, made while the endpoint publishes that kid with the
\* signing key and whose refresh did not fail, makes one refresh and
\* succeeds.
C10_RecoversAfterRotation ==
    \A p \in Callers :
        (pc[p] = "done" /\ fresh[p] /\ ret[p].Err # "refresh")
        => (ret[p].Err = "" /\ nFetch[p] = 1)

-----------------------------------------------------------------------------
(* Properties of the key store under concurrency *)

\* The mapping a complete parse of document doc yields.
MappingOf(doc) == parseJWKS(doc, EmptyKeys)

\* The step in which the getKey call of p reads v.keys and returns.
ReturnsKey(p) == pc[p] = "rheld" /\ pc'[p] # "rheld"

\* The closure of goroutine p is between its request and its return.
InClosure(p) == pc[p] \in {"http", "recv", "build", "lock", "locked"}

\* C11: a getKey that runs while refreshes go on reads v.keys when it is
\* the complete mapping of the document fetched before the latest one or
\* the complete mapping of the latest one, and returns that mapping's
\* entry for its kid; v.keys never holds part of a document or keys of two.
C11_AtomicReplacement ==
    /\ [](Len(fetched) = 2
          => keys \in {MappingOf(fetched[1]), MappingOf(fetched[2])})
    /\ [][\A p \in Callers :
            (ReturnsKey(p) /\ Len(fetched) = 2)
            => \E i \in 1..2 :
                  got'[p] = getKey(MappingOf(fetched[i]), want[p])]_vars

\* A getKey holds the read lock while the closure of a refresh has built
\* part of the new mapping, which differs from the one in place.
C11_Witness ==
    \E p \in Callers : \E l \in Procs :
        /\ pc[p] = "rheld"
        /\ pc[l] = "build"
        /\ Len(fetched) = 2
        /\ jwksRest[l] # << >>
        /\ newKeys[l] # EmptyKeys
        /\ newKeys[l] # MappingOf(fetched[2])
        /\ keys = MappingOf(fetched[1])
        /\ keys # MappingOf(fetched[2])

\* C12: every write of v.keys installs the mapping of the GET that
\* completed last, so the completion of an earlier fetch never replaces
\* the result of a later one, and once no fetch is under way v.keys is the
\* mapping of the GET that completed last.
C12_CompletionOrder ==
    /\ [][keys' # keys
          => (fetched # << >>
              /\ keys' = MappingOf(fetched[Len(fetched)]))]_vars
    /\ []((fetched # << >> /\ \A p \in Procs : ~InClosure(p))
          => keys = MappingOf(fetched[Len(fetched)]))

\* Two refreshes have fetched different documents one after the other and
\* both have finished; the mapping is the second one's.
C12_Witness ==
    /\ Len(fetched) = 2
    /\ MappingOf(fetched[1]) # MappingOf(fetched[2])
    /\ \A p \in Procs : pc[p] \in {"idle", "back"}
    /\ keys = MappingOf(fetched[2])

\* C16: while a GET of the JWKS URL is under way no goroutine holds keysMu
\* for writing or is blocked in Lock, and the goroutine that sent the GET
\* holds no lock at all; so RLock, which waits only for a writer that
\* holds or awaits the lock, never waits for the network, and readers
\* hold the lock together.
C16_NoLockDuringRequest ==
    /\ \A l \in Procs :
          Requesting(l)
          => ( /\ mu.writer = NoCall
               /\ mu.blocked = {}
               /\ l \notin mu.readers )
    /\ \A p \in Callers :
          (pc[p] = "rlock" /\ InFlight) => ENABLED getKeyRLock(p)

\* Two getKey calls hold the read lock at once while a GET is under way.
C16_Witness ==
    /\ \A p \in Callers : pc[p] = "rheld"
    /\ mu.readers = Callers
    /\ pc[Loop] = "http"

\* Goroutine p is inside a fetchJWKS call.
InFetch(p) == pc[p] \in {"http", "recv", "wait"}

\* C17: of two or more fetchJWKS calls that are in progress together,
\* exactly one has sent a GET to the JWKS endpoint, and that GET is the
\* only one under way.
C17_OneRequestForAll ==
    LET calls == { p \in Procs : InFetch(p) }
    IN  Cardinality(calls) >= 2
        => ( /\ Cardinality({ p \in calls : sent[p] }) = 1
             /\ { p \in calls : Requesting(p) } = { p \in calls : sent[p] } )

\* Both ValidateToken callers and the background loop are inside
\* fetchJWKS; the endpoint has answered the one GET.
C17_Witness ==
    /\ \A p \in Procs : InFetch(p)
    /\ \E l \in Procs :
          /\ pc[l] = "recv"
          /\ sent[l]
          /\ \A p \in Procs \ {l} : pc[p] = "wait" /\ ~sent[p]

-----------------------------------------------------------------------------
(* Properties of refreshLoop and Stop *)

\* The step in which the closure of goroutine l returns and Do ends.
ClosureEnds(l) == Completes(l) /\ pc'[l] # "dead"

\* The step in which a fetchJWKS call of refreshLoop, led by the loop or
\* by a caller whose call it waited on, returns an error.
LoopFetchFails ==
    \/ ClosureEnds(Loop) /\ Failed(resp[Loop][1])
    \/ pc[Loop] = "wait" /\ \E l \in Callers :
                                ClosureEnds(l) /\ Failed(resp[l][1])

\* The step in which refreshLoop takes a tick and calls fetchJWKS.
LoopStartsFetch == pc[Loop] = "idle" /\ pc'[Loop] \in {"http", "wait"}

C14_LoopFailureNotSurfaced ==
    [][\A p \in Callers :
          (Returns(p) /\ pc[p] = "back" /\ ~sent[p])
          => ret'[p].Err # "refresh"]_vars

\* C15: once stopRefresh is closed refreshLoop calls fetchJWKS no more,
\* and it returns in the end (a fetch under way may finish first).
C15_StopEndsLoop ==
    /\ [][stopRefresh = "closed" => ~LoopStartsFetch]_vars
    /\ (stopRefresh = "closed") ~> (pc[Loop] \in {"exit", "dead"})

\* The part of C15 that holds: the loop returns in the end.
LoopEndsAfterStop ==
    (stopRefresh = "closed") ~> (pc[Loop] \in {"exit", "dead"})

-----------------------------------------------------------------------------
(* Properties of the API key cache *)

\* The step in which goroutine p calls ValidateAPIKeyFull(k).
StartsAPI(p, k) == apc[p] = "idle" /\ apc'[p] # "idle" /\ akey'[p] = k

\* The step in which the call of p handles the response to its GET.
HandlesResponse(p) == apc[p] = "recv" /\ apc'[p] # "recv"

\* Key k has been validated remotely with success, and at time t less
\* than cacheTTL has passed since the latest such validation.
WithinTTL(k, t) == lastOK[k] # << >> /\ t < lastOK[k][1].At + cacheTTL
AfterTTL(k, t) == lastOK[k] # << >> /\ t >= lastOK[k][1].At + cacheTTL

C19_FailureNotCached ==
    [][\A p \in Callers :
          /\ (HandlesResponse(p) /\ apiErr(aresp[p][1]) # "")
             => ( /\ aret'[p].Err # ""
                  /\ aret'[p].Res = << >>
                  /\ (aresp[p][1].Net /\ aresp[p][1].Status # 200)
                     => ( /\ aret'[p].Err = "invalid API key"
                          /\ aret'[p].Status = aresp[p][1].Status )
                  /\ cache' = cache )
          /\ \A k \in APIKeys :
                (StartsAPI(p, k) /\ k \notin DOMAIN cache)
                => apc'[p] = "http"]_vars

\* A check has been refused with status 401: the call returned the error
\* and its key is not in the cache, which still holds the other key.
C19_Witness ==
    \E p \in Callers :
        /\ apc[p] = "done"
        /\ aret[p] = Validation(<< >>, "invalid API key", 401)
        /\ akey[p] \notin DOMAIN cache
        /\ DOMAIN cache = APIKeys \ {akey[p]}

C21_FixedExpiry ==
    [][/\ \A p \in Callers :
            (HandlesResponse(p) /\ apiErr(aresp[p][1]) = "")
            => ( /\ akey[p] \in DOMAIN cache'
                 /\ cache'[akey[p]].expiresAt = now + cacheTTL )
       /\ \A p \in Callers : \A k \in APIKeys :
            (StartsAPI(p, k) /\ apc'[p] = "hit") => cache' = cache
       /\ \A k \in (DOMAIN cache) \cap (DOMAIN cache') :
            cache'[k].expiresAt # cache[k].expiresAt
            => \E p \in Callers :
                  /\ HandlesResponse(p)
                  /\ apiErr(aresp[p][1]) = ""
                  /\ akey[p] = k]_vars

\* A key was validated remotely, and a call made later, before the entry's
\* expiry, has been answered from the cache: the entry still expires
\* cacheTTL after the remote validation.
C21_Witness ==
    \E p \in Callers :
        /\ apc[p] = "hit"
        /\ lastOK[akey[p]] # << >>
        /\ lastOK[akey[p]][1].At < now
        /\ akey[p] \in DOMAIN cache
        /\ cache[akey[p]].expiresAt = lastOK[akey[p]][1].At + cacheTTL

\* C22: a write of the cache map (an insertion or the deletion of an
\* expired entry) never overlaps with a read or another write of the map
\* by another goroutine.
C22_ExclusiveWrite ==
    \A p \in Callers : \A q \in Callers \ {p} :
        Writing(p) => ~(Reading(q) \/ Writing(q))

\* C23: the result of every successful API key validation converts (by
\* ToClaims, with the subject RequireAuth then sets) into a Claims whose
\* service-account flag is true, whose subject is the client identifier,
\* and whose tenant, scopes, roles and subscription fields are those of
\* the result.
C23_ConvertsToServiceClaims ==
    \A p \in Callers :
        (apc[p] \in {"hit", "done"} /\ aret[p].Err = "")
        => LET r == aret[p].Res[1]
               c == apiKeyClaims(r)
           IN  /\ c.IsService
               /\ c.Subject = r.ClientID
               /\ c.TenantID = r.TenantID
               /\ c.Scope = r.Scopes
               /\ c.Roles = r.Roles
               /\ c.SubscriptionPlan = r.SubscriptionPlan
               /\ c.SubscriptionFeatures = r.SubscriptionFeatures
               /\ c.SubscriptionLimits = r.SubscriptionLimits
               /\ c.SubscriptionStatus = r.SubscriptionStatus

-----------------------------------------------------------------------------
(* Properties of RequireAuth *)

\* The step in which the handler of p calls next.ServeHTTP.
CallsNext(p) == mw[p] # "next" /\ mw'[p] = "next"

\* The step in which the handler of p writes 401.
Refuses(p) == mw[p] # "401" /\ mw'[p] = "401"

\* The step in which the handler of p is entered.
Enters(p) == mw[p] = "idle" /\ mw'[p] # "idle"

\* The steps in which the handler of p gets the result of ValidateToken
\* and of ValidateAPIKeyFull.
TokenReturned(p) == mw[p] = "jwt" /\ pc[p] = "done" /\ pc'[p] = "idle"
KeyReturned(p) ==
    mw[p] = "key" /\ apc[p] \in {"hit", "done"} /\ apc'[p] = "idle"

\* The request carries an Authorization header with a bearer token.
CarriesBearer(r) == r.Scheme \in {"Bearer", "bearer"}

\* The handler's middleware has an API key validator and the request an
\* X-API-Key header.
KeyUsable(q) == q.A.apiKeyValidator /\ q.R.APIKey # ""

\* C24: RequireAuth calls next exactly when ValidateToken has accepted the
\* request's bearer token (the claims it returned go into the context) or,
\* with an API key validator configured, ValidateAPIKeyFull has accepted
\* the request's X-API-Key; the API key is tried when there is no bearer
\* token and when ValidateToken has refused the bearer token; in every
\* other case the handler writes 401 and does not call next.  Without an
\* API key validator next is called for an accepted bearer token only.
C24_NextIffCredentialAccepted ==
    /\ [][\A p \in Callers :
            /\ CallsNext(p)
               => \/ /\ CarriesBearer(rq[p].R)
                     /\ TokenReturned(p)
                     /\ ret[p].Err = ""
                     /\ out'[p] = Outcome(200, << ret[p].Claims >>)
                  \/ /\ KeyUsable(rq[p])
                     /\ KeyReturned(p)
                     /\ aret[p].Err = ""
                     /\ akey[p] = rq[p].R.APIKey
            /\ (TokenReturned(p) /\ ret[p].Err = "") => CallsNext(p)
            /\ (KeyReturned(p) /\ aret[p].Err = "") => CallsNext(p)
            /\ Enters(p)
               => mw'[p] = IF CarriesBearer(rq'[p].R) THEN "jwt"
                           ELSE IF KeyUsable(rq'[p]) THEN "key"
                           ELSE "401"
            /\ (TokenReturned(p) /\ ret[p].Err # "")
               => mw'[p] = IF KeyUsable(rq[p]) THEN "key" ELSE "401"
            /\ (KeyReturned(p) /\ aret[p].Err # "") => Refuses(p)
            /\ Refuses(p) => out'[p] = Outcome(401, << >>)
            /\ mw[p] = "401" => mw'[p] \in {"401", "idle"}]_vars
    /\ [](\A p \in Callers :
            /\ mw[p] = "jwt" => CarriesBearer(rq[p].R)
            /\ mw[p] = "key" => KeyUsable(rq[p])
            /\ out[p].Status = 200 <=> mw[p] = "next"
            /\ out[p].Status = 401 <=> mw[p] = "401")

\* A request with a bearer token that ValidateToken refused and an API key
\* that the validator accepted has reached next with the claims of the key.
C24_Witness ==
    \E p \in Callers :
        /\ mw[p] = "next"
        /\ rq[p].R.Scheme = "bearer"
        /\ rq[p].R.Token # Garbage
        /\ rq[p].R.APIKey # ""
        /\ out[p].Status = 200
        /\ out[p].Claims[1].Subject = "ext-client"

-----------------------------------------------------------------------------
(* Properties of the Claims helpers and the gates *)

\* The roles of Claims c, as a set.
RolesOf(c) == { c.Roles[i] : i \in 1..Len(c.Roles) }

Gates ==
    { "RequireRole", "RequireFeature", "RequireAnyFeature", "RequirePlan",
      "RequireActiveSubscription" }

\* C25: for a request whose Claims carry the role superuser, every gate
\* (RequireRole with any roles, RequireAdmin, RequireFeature,
\* RequireAnyFeature, RequirePlan, RequireActiveSubscription) calls next
\* and IsAdmin is true, whatever the other roles, the features, the plan
\* and the subscription status are.
C25_SuperuserPassesEveryGate ==
    (ctx # NoContext /\ "superuser" \in RolesOf(ctx[1]))
    => ( /\ call.Fn \in Gates => result = "next"
         /\ call.Fn = "IsAdmin" => result = "true" )

\* A superuser with another role, no plan, no feature and a suspended
\* subscription has passed RequirePlan("ENTERPRISE").
C25_Witness ==
    /\ ctx # NoContext
    /\ ctx[1].Roles = << "user", "superuser" >>
    /\ ctx[1].SubscriptionPlan = ""
    /\ ctx[1].SubscriptionFeatures = << >>
    /\ ctx[1].SubscriptionStatus = "SUSPENDED"
    /\ call = Call("RequirePlan", "ENTERPRISE")
    /\ result = "next"

\* The ranking of plan names.
Rank(name) ==
    CASE name \in {"STARTER", "FREE"} -> 1
      [] name \in {"GROWTH", "BASIC"} -> 2
      [] name \in {"PROFESSIONAL", "PRO"} -> 3
      [] name = "ENTERPRISE" -> 4
      [] OTHER -> 0

\* C26: IsAtLeastPlan(X) is true exactly when the rank of the Claims' plan
\* is at least the rank of X (STARTER/FREE 1, GROWTH/BASIC 2,
\* PROFESSIONAL/PRO 3, ENTERPRISE 4, any other name 0): true for plan
\* PROFESSIONAL and false for plan STARTER against GROWTH, false for an
\* unknown plan against every known X, true for every Claims when X is
\* unknown.
C26_PlanOrdinal ==
    (call.Fn = "IsAtLeastPlan" /\ ctx # NoContext)
    => LET plan == ctx[1].SubscriptionPlan
           X == call.Arg
       IN  /\ result \in {"true", "false"}
           /\ result = "true" <=> Rank(plan) >= Rank(X)
           /\ (X = "GROWTH" /\ plan = "PROFESSIONAL") => result = "true"
           /\ (X = "GROWTH" /\ plan = "STARTER") => result = "false"
           /\ (Rank(plan) = 0 /\ Rank(X) > 0) => result = "false"
           /\ Rank(X) = 0 => result = "true"

\* A Claims with a plan name the ranking does not know has been asked for
\* STARTER and answered false.
C26_Witness ==
    /\ ctx # NoContext
    /\ ctx[1].SubscriptionPlan = "PLATINUM"
    /\ call = Call("IsAtLeastPlan", "STARTER")
    /\ result = "false"

\* C27: IsSubscriptionActive is true for the status ACTIVE and TRIAL,
\* false for EXPIRED, CANCELLED and SUSPENDED, and true for an unset and
\* for every other status.
C27_SubscriptionStatus ==
    (call.Fn = "IsSubscriptionActive" /\ ctx # NoContext)
    => LET st == ctx[1].SubscriptionStatus
       IN  /\ st \in {"ACTIVE", "TRIAL"} => result = "true"
           /\ st \in {"EXPIRED", "CANCELLED", "SUSPENDED"} => result = "false"
           /\ st \notin {"ACTIVE", "TRIAL", "EXPIRED", "CANCELLED",
                         "SUSPENDED"} => result = "true"

\* A Claims with a status outside the five known ones has been asked and
\* answered true.
C27_Witness ==
    /\ ctx # NoContext
    /\ ctx[1].SubscriptionStatus = "PAUSED"
    /\ call.Fn = "IsSubscriptionActive"
    /\ result = "true"

\* C28: Valid reports an error exactly for a Claims with an empty subject,
\* and the Claims ValidateToken returns without error are structurally
\* valid: a token whose subject claim is missing or empty is never
\* accepted.
C28_OnlyStructurallyValid ==
    \A p \in Callers :
        /\ (Valid(ClaimsOf(tok[p])) # "") <=> (tok[p].Sub = "")
        /\ (pc[p] = "done" /\ ret[p].Err = "")
           => (Valid(ret[p].Claims) = "" /\ tok[p].Sub # "")

\* C29: under every configuration, a call returns Claims exactly when the
\* key function looked the token's kid up and the key store held the key
\* that signed the RS256 token under it, the token was inside its validity
\* window, its issuer equalled the configured one if one is configured and
\* its audience list held the configured one if one is configured: an empty
\* Issuer turns off the issuer check only, an empty Audience the audience
\* check only, and CacheTTL turns off nothing.
C29_OnlyIssuerAndAudienceOptional ==
    [][\A p \in Callers :
          Returns(p)
          => ( ret'[p].Err = ""
               <=> ( /\ LooksUp(p)
                     /\ SignedByStoredKey(tok'[p], keys)
                     /\ InWindow(tok'[p], now)
                     /\ cfg.Issuer # "" => tok'[p].Iss = cfg.Issuer
                     /\ cfg.Audience # ""
                        => InAudience(cfg.Audience, tok'[p]) ) )]_vars

\* With neither issuer nor audience configured and a short CacheTTL, a
\* token of a foreign issuer for another audience, signed by the stored
\* key, has been accepted inside its validity window.
C29_Witness ==
    \E p \in Callers :
        /\ pc[p] = "done"
        /\ cfg = ShortCacheTTL(Config("", ""))
        /\ tok[p].Iss = "https://evil.example"
        /\ tok[p].Aud = << "other" >>
        /\ tok[p].Exp # << >>
        /\ ret[p].Err = ""
        /\ now < tok[p].Exp[1]

-----------------------------------------------------------------------------
(* Properties of returned results *)

\* Caller p holds the result of a successful validation.
Holds(p) == apc[p] \in {"hit", "done"} /\ aret[p].Err = "" /\ aref[p] # NoRef

\* The result caller p holds and the cache entry of key k, as their readers
\* see them with heap h.
resultOf(p, h) == Seen(aret[p].Res[1], h[aref[p]][1])
entryOf(k, h) == Seen(cache[k].info, h[cref[k]][1])

\* Caller p writes to the result it holds.
Mutates(p) ==
    /\ Holds(p)
    /\ heap' # heap
    /\ UNCHANGED << apiVars, cref, aref >>

\* C30: the result of a successful validation belongs to its caller alone:
\* when a caller changes the scopes, roles, features or limits of the
\* result it holds, no cache entry and no result held by another caller
\* changes.
C30_ResultOwnedByCaller ==
    [][\A p \in Callers :
          Mutates(p)
          => ( /\ \A k \in DOMAIN cache :
                     cref[k] # NoRef => entryOf(k, heap') = entryOf(k, heap)
               /\ \A q \in Callers \ {p} :
                     Holds(q) => resultOf(q, heap') = resultOf(q, heap) )]_vars

-----------------------------------------------------------------------------
(* Properties of the JWKS parser *)

\* The texts that are unpadded base64url.
RawURLTexts == {"n1", "n2", "AQAB"}

\* Entry jwk is an RSA signing key for RS256 whose n and e decode.
Usable(jwk) ==
    /\ jwk.Kty = "RSA"
    /\ jwk.Use = "sig"
    /\ jwk.Alg = "RS256"
    /\ jwk.N \in RawURLTexts
    /\ jwk.E \in RawURLTexts

\* The positions of the usable entries of doc that name kid.
UsableAt(doc, kid) ==
    { i \in 1..Len(doc) : Usable(doc[i]) /\ doc[i].Kid = kid }
Last(S) == CHOOSE i \in S : \A j \in S : j <= i

\* The closure of goroutine p ends on a 200 response with a JSON document.
Installs(p) ==
    /\ pc[p] = "recv"
    /\ pc'[p] # "recv"
    /\ resp[p][1].Net
    /\ resp[p][1].Status = 200
    /\ resp[p][1].Json

\* C31: a refresh that received a document does not fail, whatever entries
\* the document holds, and installs exactly its usable entries: a kid
\* resolves afterwards iff an entry of that kid has kty RSA, use sig, alg
\* RS256 and n and e in unpadded base64url, and it resolves to the modulus
\* of the last such entry.
C31_UsableEntriesRetained ==
    [][\A p \in Procs :
          Installs(p)
          => LET doc == resp[p][1].Doc
             IN  /\ failures' = 0
                 /\ lastFetch' = now
                 /\ DOMAIN keys' = { kid \in Kids : UsableAt(doc, kid) # {} }
                 /\ \A kid \in DOMAIN keys' :
                       /\ keys'[kid].N
                            = ModulusOf(doc[Last(UsableAt(doc, kid))].N)
                       /\ keys'[kid].E = 65537]_vars

\* After the loop's refresh of a document whose first entry has a modulus
\* that does not decode and whose second entry is usable, k2 resolves and
\* k1, which the initial fetch had installed, does not.
C31_Witness ==
    /\ served = << Jwk("RSA", "k1", "sig", "RS256", BadB64, "AQAB"),
                   GoodJwk("k2", "n2") >>
    /\ pc[Loop] = "idle"
    /\ DOMAIN keys = {"k2"}
    /\ keys["k2"] = PubKey(2)
    /\ failures = 0

\* C32: a call with a token that is not well-formed, or whose header has no
\* kid, returns an error in the step that made the call: it calls neither
\* getKey nor fetchJWKS, sends no GET and leaves the Validator as it was.
C32_NoKidNoLookup ==
    [][\A p \in Callers :
          ( /\ pc[p] = "idle"
            /\ pc'[p] # "idle"
            /\ (~tok'[p].WellFormed \/ tok'[p].Kid = NoKid) )
          => ( /\ pc'[p] = "done"
               /\ ret'[p].Err \in {"malformed", "alg", "nokid"}
               /\ nLookup'[p] = 0
               /\ nFetch'[p] = 0
               /\ ~sent'[p]
               /\ UNCHANGED validatorVars )]_vars

\* A well-formed RS256 token without kid, signed by a key of the store, has
\* been rejected for its missing kid.
C32_Witness ==
    \E p \in Callers :
        /\ pc[p] = "done"
        /\ tok[p].WellFormed
        /\ tok[p].Alg = "RS256"
        /\ tok[p].Kid = NoKid
        /\ \E kid \in DOMAIN keys : keys[kid] = tok[p].Signer
        /\ ret[p].Err = "nokid"
        /\ nLookup[p] = 0

\* C33: when RequireAuth calls next, ClaimsFromContext on the forwarded
\* request returns ok with the Claims of the accepted credential: the
\* Claims ValidateToken returned for a token, and for an API key the Claims
\* converted from the validation result with the client identifier as
\* subject.
C33_ClaimsInContext ==
    [][\A p \in Callers :
          CallsNext(p)
          => LET found == ClaimsFromContext(out'[p].Claims)
             IN  /\ found.ok
                 /\ Len(found.claims) = 1
                 /\ TokenReturned(p) => found.claims[1] = ret[p].Claims
                 /\ KeyReturned(p)
                    => /\ found.claims[1].Subject = aret[p].Res[1].ClientID
                       /\ [found.claims[1] EXCEPT !.Subject = ""]
                            = ToClaims(aret[p].Res[1])]_vars

\* A request with a rejected bearer token and an API key has been forwarded
\* with the Claims of the key's client as subject.
C33_Witness ==
    \E p \in Callers :
        /\ mw[p] = "next"
        /\ CarriesBearer(rq[p].R)
        /\ rq[p].R.APIKey # ""
        /\ ClaimsFromContext(out[p].Claims).ok
        /\ out[p].Claims[1].Subject = "ext-client"

\* The features of Claims c, as a set, and the elements of a sequence.
FeaturesOf(c) ==
    { c.SubscriptionFeatures[i] : i \in 1..Len(c.SubscriptionFeatures) }
Elements(seq) == { seq[i] : i \in 1..Len(seq) }

\* What the gate applied last asks of the Claims c besides an active
\* subscription.
Entitled(c) ==
    CASE call.Fn = "RequireFeature" -> call.Arg \in FeaturesOf(c)
      [] call.Fn = "RequireAnyFeature"
           -> Elements(call.Arg) \cap FeaturesOf(c) # {}
      [] call.Fn = "RequirePlan" -> Rank(c.SubscriptionPlan) >= Rank(call.Arg)

\* C34: for Claims without the role superuser, RequireFeature,
\* RequireAnyFeature and RequirePlan answer 403 subscription_inactive when
\* the status is EXPIRED, CANCELLED or SUSPENDED, whatever features and
\* plan the Claims have, and call next exactly when the status is none of
\* these and the Claims have the feature, one of the features or the plan.
C34_SubscriptionBeforeFeature ==
    ( /\ ctx # NoContext
      /\ call.Fn \in {"RequireFeature", "RequireAnyFeature", "RequirePlan"}
      /\ "superuser" \notin RolesOf(ctx[1]) )
    => LET c == ctx[1]
           inactive ==
               c.SubscriptionStatus \in {"EXPIRED", "CANCELLED", "SUSPENDED"}
       IN  /\ inactive => result = "subscription_inactive"
           /\ result = "next" <=> (~inactive /\ Entitled(c))
           /\ (~inactive /\ ~Entitled(c))
              => result = IF call.Fn = "RequirePlan"
                          THEN "plan_upgrade_required"
                          ELSE "feature_not_available"

\* Claims of an ordinary user with the feature export and the plan
\* ENTERPRISE, whose subscription is expired, have been refused by
\* RequireFeature("export") as inactive.
C34_Witness ==
    /\ ctx # NoContext
    /\ ctx[1].Roles = << "user" >>
    /\ ctx[1].SubscriptionStatus = "EXPIRED"
    /\ ctx[1].SubscriptionPlan = "ENTERPRISE"
    /\ ctx[1].SubscriptionFeatures = << "export" >>
    /\ call = Call("RequireFeature", "export")
    /\ result = "subscription_inactive"

\* The scopes of Claims c, as a set.
ScopesOf(c) == { c.Scope[i] : i \in 1..Len(c.Scope) }

\* C35: HasScope(s) holds iff s is in the scope list of the Claims,
\* HasAnyScope(S) iff S and the list have a scope in common (never for an
\* empty S), HasAllScopes(S) iff every scope of S is in the list (always
\* for an empty S); RequireScope and RequireAllScopes answer 401 without
\* claims, call next when HasAnyScope and HasAllScopes hold, and answer 403
\* otherwise.
C35_ScopeSets ==
    LET S == Elements(call.Arg)
        yes(b) == IF b THEN "true" ELSE "false"
        gate(b) == IF ctx = NoContext THEN "missing claims"
                   ELSE IF b THEN "next" ELSE "insufficient scopes"
    IN  /\ call.Fn = "HasScope"
           => result = yes(call.Arg \in ScopesOf(ctx[1]))
        /\ call.Fn = "HasAnyScope"
           => result = yes(S \cap ScopesOf(ctx[1]) # {})
        /\ call.Fn = "HasAllScopes"
           => result = yes(S \subseteq ScopesOf(ctx[1]))
        /\ call.Fn = "RequireScope"
           => result = gate(ctx # NoContext /\ S \cap ScopesOf(ctx[1]) # {})
        /\ call.Fn = "RequireAllScopes"
           => result = gate(ctx # NoContext /\ S \subseteq ScopesOf(ctx[1]))

\* RequireScope without scopes has refused Claims that have scopes and the
\* role superuser.
C35_Witness ==
    /\ ctx # NoContext
    /\ ctx[1].Scope = << "read", "write" >>
    /\ ctx[1].Roles = << "superuser" >>
    /\ call = Call("RequireScope", << >>)
    /\ result = "insufficient scopes"

\* C36: when the RequireAuth handler inside GinMiddleware has written 401,
\* no later handler of the chain runs for the request; the route handler
\* runs only for a request that RequireAuth passed to its next handler.
C36_RejectedRequestStops ==
    \A p \in Callers : gin[p].written = 401 => ~gin[p].ran

-----------------------------------------------------------------------------
(* Properties of Stop and NewValidator *)

\* C37: Stop can be called any number of times, at any moment of the
\* validations and refreshes under way, and the process never fails: no
\* call of Stop panics and no goroutine is ended by one.
C37_StopAnyNumberOfTimes ==
    /\ stopRefresh \in {"open", "closed"}
    /\ \A p \in Procs : pc[p] # "dead"

\* A caller inside ValidateToken.
InCall(p) == pc[p] \notin {"idle", "done"}

\* C38: provided every GET of the JWKS ends, every ValidateToken call
\* returns in the end, whatever other validations, on-demand refreshes,
\* background refreshes and calls of Stop run beside it.
C38_EveryCallReturns ==
    \A p \in Callers : InCall(p) ~> (pc[p] = "done")

\* The part of C38 that holds: a call returns in the end unless a second
\* Stop has ended the process.
CallReturnsOrProcessEnds ==
    \A p \in Callers : InCall(p) ~> (pc[p] \in {"done", "dead"})

\* A call is waiting on the shared fetch of another caller, with the loop
\* fetching and Stop called, and no panic.
C38_Witness ==
    /\ stopRefresh = "closed"
    /\ \E p \in Callers : pc[p] = "wait"
    /\ \E p \in Callers : pc[p] \in {"http", "recv"}

\* NewValidator has not returned yet.
Constructing == pc[Loop] = "unborn" /\ pc["c1"] # "failed"

\* NewValidator returns in this step, with or without a Validator.
NewReturns == Constructing /\ pc'["c1"] \in {"idle", "failed"}

\* A goroutine sends a GET of the JWKS in this step.
SendsGet == \E p \in Procs : pc[p] # "http" /\ pc'[p] = "http"

\* C39: NewValidator fetches the JWKS exactly once before it returns.  If
\* the fetch fails it returns an error and no Validator, no refreshLoop is
\* started and no GET is sent afterwards.  If it succeeds it starts the
\* one refreshLoop, and the mapping of the Validator it returns is the one
\* of the document that fetch received.
C39_NewValidatorFetchesOnce ==
    /\ [][Constructing /\ SendsGet => pc["c1"] = "new" /\ nFetch["c1"] = 0]_vars
    /\ [][NewReturns => nFetch["c1"] = 1 /\ sf = NoCall]_vars
    /\ [][NewReturns /\ ferr["c1"] # ""
            => /\ pc'["c1"] = "failed" /\ pc'[Loop] = "unborn"
               /\ fetched = << >>]_vars
    /\ [][pc["c1"] = "failed"
            => ~SendsGet /\ pc' = pc /\ keys' = keys /\ sf' = sf]_vars
    /\ [][NewReturns /\ ferr["c1"] = ""
            => /\ pc'["c1"] = "idle" /\ pc'[Loop] = "idle"
               /\ Len(fetched) = 1
               /\ keys' = parseJWKS(fetched[1], EmptyKeys)]_vars
    /\ [][pc[Loop] = "unborn" /\ pc'[Loop] # "unborn"
            => NewReturns /\ ferr["c1"] = ""]_vars
    /\ [][pc[Loop] # "unborn" => pc'[Loop] # "unborn"]_vars

\* NewValidator has failed while the endpoint publishes a document with a
\* usable key.
C39_Witness ==
    /\ pc["c1"] = "failed"
    /\ pc[Loop] = "unborn"
    /\ parseJWKS(served, EmptyKeys) # EmptyKeys

\* NewValidator has succeeded and the loop it started is fetching.
NewValidatorSucceeded ==
    /\ pc[Loop] = "http"
    /\ Len(fetched) >= 1
    /\ keys # EmptyKeys

====
